---- MODULE Spec2Model ----
(***************************************************************************)
(* Relay engine of telegram-bot/agent_bot.py: the getUpdates poll loop,    *)
(* the per-response message batch, the offset / session / chat-id files,   *)
(* and run_agent_streaming with its reader thread, the agent subprocess    *)
(* and the waiting loop (typing heartbeat, timeout, bounded join).         *)
(*                                                                         *)
(* Texts are sequences of one-character strings; a file is the sequence of *)
(* values it holds (<<>>: missing, empty or truncated); None and "" are    *)
(* both the empty sequence, as the code only tests them for truthiness.    *)
(***************************************************************************)
EXTENDS Integers, Sequences, FiniteSets, TLC

\* ---------------------------------------------------------------- bounds
MaxUpdates == 2      \* updates the platform creates in one behaviour
MaxLines   == 2      \* output lines one agent subprocess writes
MaxChunks  == 3      \* chunks of the longest text given to send_message
MaxChars   == 6      \* units of the longest text one assistant event carries
MaxFiles   == 2      \* files put into the drop-folders in one behaviour
MaxFlushes == 2      \* text flushes followed in one behaviour

\* ------------------------------------------------------------- constants
allowed_user_id == "me"
None == <<>>
WS == {" ", "\n"}

\* ------------------------------------------------------------ str helpers
RECURSIVE LStrip(_)
LStrip(s) == IF s # <<>> /\ Head(s) \in WS THEN LStrip(Tail(s)) ELSE s

RECURSIVE RStrip(_)
RStrip(s) ==
  IF s # <<>> /\ s[Len(s)] \in WS THEN RStrip(SubSeq(s, 1, Len(s) - 1)) ELSE s

\* str.strip()
Strip(s) == RStrip(LStrip(s))

\* sep.join(parts)
RECURSIVE Join(_, _)
Join(sep, parts) ==
  IF parts = <<>> THEN <<>>
  ELSE IF Len(parts) = 1 THEN parts[1]
  ELSE parts[1] \o sep \o Join(sep, Tail(parts))

\* str.split("\n")
RECURSIVE Split(_)
Split(s) ==
  IF \A k \in DOMAIN s : s[k] # "\n" THEN <<s>>
  ELSE LET k == CHOOSE j \in DOMAIN s :
                  s[j] = "\n" /\ \A h \in 1..(j - 1) : s[h] # "\n"
       IN <<SubSeq(s, 1, k - 1)>> \o Split(SubSeq(s, k + 1, Len(s)))

\* str.startswith(pre)
StartsWith(s, pre) == Len(s) >= Len(pre) /\ SubSeq(s, 1, Len(pre)) = pre

\* ------------------------------------------------------ the text of a flush
\* if not line.strip(): blank, empty or whitespace-only
IsBlank_EmptyOnly(line) == line = <<>>
IsBlank(line) == Strip(line) = <<>>

\* The for loop of collapse_blank_lines: result, with in_blank_run
RECURSIVE CollapseLoop(_, _)
CollapseLoop(lines, in_blank_run) ==
  IF lines = <<>> THEN <<>>
  ELSE IF IsBlank(Head(lines))
       THEN (IF in_blank_run THEN <<>> ELSE << <<>> >>)
              \o CollapseLoop(Tail(lines), TRUE)
       ELSE <<Head(lines)>> \o CollapseLoop(Tail(lines), FALSE)

collapse_blank_lines(str) ==
  IF str = <<>> THEN str
  ELSE Join(<<"\n">>, CollapseLoop(Split(str), FALSE))

\* prefix = "attach-image:", taken as one unit of text
prefix == <<"@">>

\* os.path.isfile(cand): one file exists, named p. The paths of the model are
\* absolute, so cand is path.
isfile_Always(path) == TRUE
isfile(path) == path = <<"p">>

\* The for loop of extract_attach_image_paths: paths and kept
RECURSIVE ExtractLoop(_)
ExtractLoop(lines) ==
  IF lines = <<>> THEN [paths |-> <<>>, kept |-> <<>>]
  ELSE LET line == Head(lines)
           stripped == Strip(line)
           rest == ExtractLoop(Tail(lines))
       IN IF StartsWith(stripped, prefix)
          THEN LET path == Strip(SubSeq(stripped, Len(prefix) + 1, Len(stripped)))
               IN IF path # <<>> /\ isfile(path)
                  THEN [rest EXCEPT !.paths = <<path>> \o @]
                  ELSE rest
          ELSE [rest EXCEPT !.kept = <<line>> \o @]

extract_attach_image_paths(str) ==
  LET r == ExtractLoop(Split(str))
  IN [paths |-> r.paths, text |-> Join(<<"\n">>, r.kept)]

\* The units of text: a letter, a blank, a line break, the directive prefix
\* and the name of the file that exists.
Chars == {"a", " ", "\n", "@", "p"}

\* The texts an assistant event may carry
Texts == UNION {[1..n -> Chars] : n \in 0..MaxChars}

\* ------------------------------------------------------- the drop-folders
_IMAGE_EXTENSIONS == {".png", ".jpg", ".jpeg", ".gif", ".webp"}

\* The endings of the names of the files put into the folders
Exts == {".png", ".JPG", ".txt"}

\* name.lower(), on the ending of the name
lower(ext) ==
  CASE ext = ".PNG" -> ".png" [] ext = ".JPG" -> ".jpg" [] ext = ".JPEG" -> ".jpeg"
    [] ext = ".GIF" -> ".gif" [] ext = ".WEBP" -> ".webp" [] OTHER -> ext

\* any(lower.endswith(ext) for ext in _IMAGE_EXTENSIONS), and the chain of
\* endswith tests of send_pending_images, which names the same endings
IsImage_CaseSensitive(f) == f.ext \in _IMAGE_EXTENSIONS
IsImage(f) == lower(f.ext) \in _IMAGE_EXTENSIONS

\* sorted(os.listdir(dir)): rank is the place of the name in sorted order
RECURSIVE Sorted(_)
Sorted(S) ==
  IF S = {} THEN <<>>
  ELSE LET m == CHOOSE x \in S : \A y \in S : x.rank <= y.rank
       IN <<m>> \o Sorted(S \ {m})

\* ---------------------------------------------------------------- updates
\* The shapes of update the platform delivers: msg is "message or
\* edited_message present", from the sender id, photo "photo list non-empty".
NoMsgU   == [msg |-> FALSE, from |-> "nobody", chat |-> "nochat", text |-> <<>>,
             photo |-> FALSE, caption |-> <<>>]
OtherU   == [msg |-> TRUE, from |-> "other", chat |-> "chatOther", text |-> <<"x">>,
             photo |-> TRUE, caption |-> <<"x">>]
MeA      == [msg |-> TRUE, from |-> "me", chat |-> "chatMe", text |-> <<"a">>,
             photo |-> FALSE, caption |-> <<>>]
MeBpad   == [msg |-> TRUE, from |-> "me", chat |-> "chatMe", text |-> <<" ", "b">>,
             photo |-> FALSE, caption |-> <<>>]
MeBlank  == [msg |-> TRUE, from |-> "me", chat |-> "chatMe", text |-> <<" ">>,
             photo |-> FALSE, caption |-> <<>>]
MePhoto  == [msg |-> TRUE, from |-> "me", chat |-> "chatMe", text |-> <<>>,
             photo |-> TRUE, caption |-> <<"c">>]
UpdateShapes == {NoMsgU, OtherU, MeA, MeBpad, MeBlank, MePhoto}

\* The allowed user writing in a second chat, a group the bot is a member of
MeGroup  == [msg |-> TRUE, from |-> "me", chat |-> "chatGroup", text |-> <<"g">>,
             photo |-> FALSE, caption |-> <<>>]

\* "photo_%s_%s.jpg" % (upd["update_id"], i), under telegram-bot/received_images
PhotoName(update_id, i) == "photo_" \o ToString(update_id) \o "_" \o ToString(i)

EmptyBatch == [texts |-> <<>>, images |-> <<>>, chat_id |-> None, ids |-> {}]

\* chat_id taken from every accepted message, the last one staying
LearnChat_Latest(chat_id, msg) == <<msg.chat>>

\* if chat_id is None: chat_id = msg["chat"]["id"]
LearnChat(chat_id, msg) == IF chat_id = None THEN <<msg.chat>> ELSE chat_id

\* BatchLoop without the test of the sender id
RECURSIVE BatchLoop_AnySender(_, _, _, _)
BatchLoop_AnySender(upds, i, dlOk, acc) ==
  IF i > Len(upds) THEN acc
  ELSE LET upd == upds[i]
           msg == upd.u
       IN IF ~msg.msg THEN BatchLoop_AnySender(upds, i + 1, dlOk, acc)
          ELSE LET chat == LearnChat(acc.chat_id, msg)
                   text == Strip(msg.text)
                   t1   == IF text # <<>> THEN Append(acc.texts, text) ELSE acc.texts
                   got  == msg.photo /\ upd.update_id \in dlOk
                   im   == IF got THEN Append(acc.images, PhotoName(upd.update_id, i - 1))
                           ELSE acc.images
                   cap  == Strip(msg.caption)
                   t2   == IF msg.photo /\ cap # <<>> THEN Append(t1, cap) ELSE t1
                   used == text # <<>> \/ got \/ (msg.photo /\ cap # <<>>)
               IN BatchLoop_AnySender(upds, i + 1, dlOk,
                            [texts |-> t2, images |-> im, chat_id |-> chat,
                             ids |-> IF used THEN acc.ids \cup {upd.update_id}
                                     ELSE acc.ids])

\* The for loop of main over one poll response; i counts from 1 where the
\* code's enumerate counts from 0; dlOk is the set of update ids whose photo
\* download_telegram_photo fetched. ids records which updates put a text, a
\* caption or an image reference into the batch.
RECURSIVE BatchLoop(_, _, _, _)
BatchLoop(upds, i, dlOk, acc) ==
  IF i > Len(upds) THEN acc
  ELSE LET upd == upds[i]
           msg == upd.u
       IN IF ~msg.msg THEN BatchLoop(upds, i + 1, dlOk, acc)
          ELSE IF msg.from # allowed_user_id THEN BatchLoop(upds, i + 1, dlOk, acc)
          ELSE LET chat == LearnChat(acc.chat_id, msg)
                   text == Strip(msg.text)
                   t1   == IF text # <<>> THEN Append(acc.texts, text) ELSE acc.texts
                   got  == msg.photo /\ upd.update_id \in dlOk
                   im   == IF got THEN Append(acc.images, PhotoName(upd.update_id, i - 1))
                           ELSE acc.images
                   cap  == Strip(msg.caption)
                   t2   == IF msg.photo /\ cap # <<>> THEN Append(t1, cap) ELSE t1
                   used == text # <<>> \/ got \/ (msg.photo /\ cap # <<>>)
               IN BatchLoop(upds, i + 1, dlOk,
                            [texts |-> t2, images |-> im, chat_id |-> chat,
                             ids |-> IF used THEN acc.ids \cup {upd.update_id}
                                     ELSE acc.ids])

\* BuildPrompt with the texts joined by a single line break
BuildPrompt_LineBreak(b) ==
  LET text == IF b.texts # <<>> THEN Join(<<"\n">>, b.texts) ELSE <<>>
  IN IF b.images # <<>>
     THEN text \o <<"\n", "\n", "[images:">> \o b.images \o <<"]">>
     ELSE text

\* The prompt main builds from a batch: the texts joined by a blank line, then
\* the note naming the downloaded images.
BuildPrompt(b) ==
  LET text == IF b.texts # <<>> THEN Join(<<"\n", "\n">>, b.texts) ELSE <<>>
  IN IF b.images # <<>>
     THEN text \o <<"\n", "\n", "[images:">> \o b.images \o <<"]">>
     ELSE text


\* ------------------------------------------------------------ agent output
\* The lines the agent subprocess can write to its standard output: kind says
\* what json.loads makes of the stripped line, type is the role/type field,
\* sid the session_id / sessionId / chatId field, text the text the reader's
\* shape search finds (<<>>: none).
SysS1     == [kind |-> "event", type |-> "system", sid |-> <<"1">>, text |-> <<>>]
AsstS2    == [kind |-> "event", type |-> "Assistant", sid |-> <<"2", " ">>,
              text |-> <<"h", " ">>]
NonObject == [kind |-> "nonobject", type |-> "", sid |-> <<>>, text |-> <<>>]
Malformed == [kind |-> "malformed", type |-> "", sid |-> <<>>, text |-> <<>>]
LineKinds == {SysS1, AsstS2, NonObject, Malformed}

\* What one agent run writes: at most MaxLines lines
Scripts == UNION {[1..n -> LineKinds] : n \in 0..MaxLines}

\* str.lower() on the role/type values the agent uses
Lower(t) == IF t = "Assistant" THEN "assistant" ELSE t

\* The loop of _parse_session_and_final_output over the lines read so far:
\* "raise" when obj.get is called on a line that parses to something other
\* than an object (AttributeError, not caught), else the last truthy session
\* value. The fallback on the last line can add no session the loop missed.
RECURSIVE ParseLoop(_, _, _)
ParseLoop(ls, i, sid) ==
  IF i > Len(ls) THEN [raised |-> FALSE, session_id |-> sid]
  ELSE IF ls[i].kind = "malformed" THEN ParseLoop(ls, i + 1, sid)
  ELSE IF ls[i].kind = "nonobject" THEN [raised |-> TRUE, session_id |-> sid]
  ELSE ParseLoop(ls, i + 1, IF ls[i].sid # <<>> THEN ls[i].sid ELSE sid)

_parse_session_and_final_output(full_stdout) == ParseLoop(full_stdout, 1, None)

\* ------------------------------------------------------------------ files
WriteOutcomes == {"ok", "open_fails", "write_fails"}

\* open(path, "w") then f.write(value): a failing open leaves the file as it
\* was, a failing write leaves it truncated.
WriteFile(old, value, outcome) ==
  IF outcome = "ok" THEN value
  ELSE IF outcome = "open_fails" THEN old
  ELSE <<>>

\* load_offset that takes no notice of the file
load_offset_Ignored(file) == 0

load_offset(file) == IF file = <<>> THEN 0 ELSE file[1]

load_session(file) == Strip(file)


\* ------------------------------------------------------------------ state
VARIABLES
  srv,           \* the platform: next update id, queue of unconfirmed updates
  offsetFile, sessionFile, chatIdFile,
  pc,            \* where main (and, inside a turn, run_agent_streaming) stands
  offset, session_id, updates, batch,
  cmd,           \* prompt and --resume value of the turn's command line
  timeout_sec,   \* get_agent_timeout()
  full_stdout_lines, proc_ref, process_done, timed_out,
  rpc,           \* where the reader thread stands
  proc,          \* the agent subprocess and its stdout pipe
  chat,          \* what the turn has sent to the chat so far
  detached,      \* readers of earlier turns still running
  ran,           \* history: the update ids some run's prompt has included
  ranOk,         \* history: those of ran whose offset write had succeeded
  invoked,       \* history: calls of run_agent_streaming for this response
  offOk, sessOk, \* history: the latest offset / session write succeeded
  prevObs,       \* history: last session value the previous run observed
  obj,           \* reader: the output event json.loads returned
  todo,          \* agent: the lines it has yet to write once the pipe has room
  reminders_file, \* run_reminders: the list reminders.json holds
  run,           \* run_reminders: each timer run's position, now, due, remaining
  handled,       \* history: the reminders processed, in order, and by which run
  clock,         \* the wall clock
  msg_text,      \* send_message: the text it was called with
  msg_i,         \* send_message: the loop index i
  msg_calls,     \* send_message: the sendMessage requests made, in order
  msg_pc,        \* send_message: where the call stands
  ev_text,       \* flush: the text of the assistant event
  attach_paths,  \* flush: the paths still to send as photos
  text_without_attach,
  fl_sends,      \* flush: the sends made, in order
  fl_pc,         \* flush: where it stands
  pending_attachments, pending_images,   \* the files in the two folders
  names,         \* drain: the sorted listing still to go through
  listed,        \* history: the files the listing of the pass held
  dr_sends,      \* drain: the sends of the flush to the chat, in order
  flush_no,      \* history: the flushes begun
  dr_pc          \* drain: where the flush stands

srvVars   == <<srv>>
fileVars  == <<offsetFile, sessionFile, chatIdFile>>
mainVars  == <<offset, session_id, updates, batch>>
readVars  == <<full_stdout_lines, proc_ref, process_done, rpc, proc, chat>>
turnVars  == <<cmd, timed_out, readVars, detached>>
histVars  == <<ran, ranOk, invoked, offOk, sessOk, prevObs>>
sendVars  == <<msg_text, msg_i, msg_calls, msg_pc>>
flushVars == <<ev_text, attach_paths, text_without_attach, fl_sends, fl_pc>>
dirVars   == <<pending_attachments, pending_images>>
drainVars == <<dirVars, names, listed, dr_sends, flush_no, dr_pc>>
eventVars == <<obj>>
agentVars == <<todo>>
remVars   == <<reminders_file, run, handled, clock>>
restVars  == <<srvVars, fileVars, pc, mainVars, timeout_sec, turnVars, histVars,
               sendVars, flushVars, drainVars, eventVars, agentVars>>
envVars   == <<timeout_sec, sendVars, flushVars, drainVars, eventVars, agentVars,
               remVars>>
botVars   == <<srvVars, fileVars, pc, mainVars, timeout_sec, turnVars, histVars,
               eventVars, agentVars, remVars>>
vars      == <<srvVars, fileVars, pc, mainVars, envVars, turnVars, histVars>>

NoProc == [st |-> "none", pipe |-> <<>>, rc |-> 0]
NoCmd  == [prompt |-> <<>>, resume |-> None]

TurnPcs == {"wait", "tick", "notice", "join"}
ReaderAlive == rpc \notin {"idle", "finished"}

\* No call of send_message is followed chunk by chunk.
SendIdle ==
  msg_text = <<>> /\ msg_i = 0 /\ msg_calls = <<>> /\ msg_pc = "idle"

\* No flush is followed step by step.
FlushIdle ==
  /\ ev_text = <<>> /\ attach_paths = <<>> /\ text_without_attach = <<>>
  /\ fl_sends = <<>> /\ fl_pc = "idle"

\* No output event is followed through the reader's tests.
NoEvent == [role |-> "", type |-> "", messageType |-> "", parts |-> <<>>,
            content |-> <<>>, text |-> <<>>, delta |-> <<>>, result |-> <<>>,
            output |-> <<>>]
EventIdle == obj = NoEvent

\* The agent's output never exceeds what the pipe takes.
AgentIdle == todo = <<>>

\* No reminders and no timer run.
RemIdle ==
  reminders_file = <<>> /\ run = <<>> /\ handled = <<>> /\ clock = 0

\* Both folders empty and no flush under way.
DrainIdle ==
  /\ pending_attachments = {} /\ pending_images = {}
  /\ names = <<>> /\ listed = {} /\ dr_sends = <<>>
  /\ flush_no = 0 /\ dr_pc = "idle"

\* main() up to the while loop, on files as the last process left them
Boot ==
  /\ pc = "poll"
  /\ offset = load_offset(offsetFile)
  /\ session_id = load_session(sessionFile)
  /\ updates = <<>> /\ batch = EmptyBatch
  /\ cmd = NoCmd
  /\ full_stdout_lines = <<>> /\ proc_ref = FALSE /\ process_done = FALSE
  /\ timed_out = FALSE
  /\ rpc = "idle" /\ proc = NoProc /\ chat = <<>> /\ detached = 0

Fresh ==
  /\ srv = [next |-> 1, queue |-> <<>>]
  /\ offsetFile = <<>> /\ sessionFile = <<>> /\ chatIdFile = <<>>
  /\ ran = {} /\ ranOk = {}
  /\ invoked = 0 /\ offOk = TRUE /\ sessOk = TRUE /\ prevObs = None

\* The default configuration: CURSOR_AGENT_TIMEOUT unset, 0 = unlimited
Init ==
  /\ Fresh /\ Boot /\ timeout_sec = 0
  /\ SendIdle /\ FlushIdle /\ DrainIdle /\ EventIdle /\ AgentIdle /\ RemIdle

\* --------------------------------------------------------------- platform
\* The allowed user, someone else or the platform itself creates an update.
\* The bot sees the queue only in getUpdates, so arrivals are taken while it
\* polls.
UserSend(shapes) ==
  /\ pc = "poll"
  /\ srv.next <= MaxUpdates
  /\ \E u \in shapes :
       srv' = [next |-> srv.next + 1,
               queue |-> Append(srv.queue, [update_id |-> srv.next, u |-> u])]
  /\ UNCHANGED <<fileVars, pc, mainVars, envVars, turnVars, histVars>>

\* getUpdates(offset): updates below the offset are confirmed and forgotten,
\* the others are returned in order.
GetUpdates(queue, off) == SelectSeq(queue, LAMBDA e : e.update_id >= off)

\* ------------------------------------------------------------------- main
\* What dies with the bot process: main's locals and the threads of the turn.
ProcessGone ==
  /\ pc' = "down"
  /\ offset' = 0 /\ session_id' = None /\ updates' = <<>> /\ batch' = EmptyBatch
  /\ cmd' = NoCmd
  /\ full_stdout_lines' = <<>> /\ proc_ref' = FALSE /\ process_done' = FALSE
  /\ timed_out' = FALSE
  /\ rpc' = "idle" /\ proc' = NoProc /\ chat' = <<>> /\ detached' = 0
  /\ invoked' = 0

\* What api(token, "getUpdates", ...) comes to: urlopen raises URLError, the
\* reply has ok false, the reply has ok true, or something else is raised
\* (a timeout while the reply is read, a body that is no JSON).
PollOutcomes == {"urlerror", "notok", "ok", "error"}

\* Poll with the offset forgotten when the poll fails
Poll_ForgetOnFailure ==
  /\ pc = "poll"
  /\ \E outcome \in PollOutcomes :
       IF outcome = "ok"
       THEN LET result == GetUpdates(srv.queue, offset)
            IN /\ srv' = [srv EXCEPT !.queue = result]
               /\ IF result = <<>>
                  THEN UNCHANGED <<pc, updates, invoked>>
                  ELSE /\ pc' = "batch"
                       /\ updates' = result
                       /\ invoked' = 0
               /\ UNCHANGED <<offset, session_id, batch, turnVars, offOk, prevObs>>
       ELSE IF outcome = "error"
       THEN /\ ProcessGone
            /\ offOk' = TRUE /\ prevObs' = None
            /\ UNCHANGED srv
       ELSE /\ offset' = 0
            /\ UNCHANGED <<srv, pc, session_id, updates, batch, turnVars,
                           invoked, offOk, prevObs>>
  /\ UNCHANGED <<fileVars, envVars, ran, ranOk, sessOk>>

\* One pass of the while loop up to the batch: the poll, its two failure
\* branches (sleep 5 and retry), the empty result, and the exception that
\* main does not catch.
Poll ==
  /\ pc = "poll"
  /\ \E outcome \in PollOutcomes :
       IF outcome = "ok"
       THEN LET result == GetUpdates(srv.queue, offset)
            IN /\ srv' = [srv EXCEPT !.queue = result]
               /\ IF result = <<>>
                  THEN UNCHANGED <<pc, updates, invoked>>
                  ELSE /\ pc' = "batch"
                       /\ updates' = result
                       /\ invoked' = 0
               /\ UNCHANGED <<offset, session_id, batch, turnVars, offOk, prevObs>>
       ELSE IF outcome = "error"
       THEN /\ ProcessGone
            /\ offOk' = TRUE /\ prevObs' = None
            /\ UNCHANGED srv
       ELSE UNCHANGED <<srv, pc, offset, session_id, updates, batch, turnVars,
                        invoked, offOk, prevObs>>
  /\ UNCHANGED <<fileVars, envVars, ran, ranOk, sessOk>>

PhotoIds(upds) == {upds[i].update_id : i \in {j \in 1..Len(upds) : upds[j].u.photo}}

\* BuildBatch with the offset advanced only when an update was accepted
BuildBatch_AdvanceIfAccepted ==
  /\ pc = "batch"
  /\ \E dlOk \in SUBSET PhotoIds(updates) :
       batch' = BatchLoop(updates, 1, dlOk, EmptyBatch)
  /\ offset' = IF batch'.ids = {} THEN offset
               ELSE updates[Len(updates)].update_id + 1
  /\ pc' = "save_offset"
  /\ UNCHANGED <<srvVars, fileVars, session_id, updates, envVars, turnVars,
                 histVars>>

\* The for loop over the response and the offset assignment after it.
BuildBatch ==
  /\ pc = "batch"
  /\ \E dlOk \in SUBSET PhotoIds(updates) :
       batch' = BatchLoop(updates, 1, dlOk, EmptyBatch)
  /\ offset' = updates[Len(updates)].update_id + 1
  /\ pc' = "save_offset"
  /\ UNCHANGED <<srvVars, fileVars, session_id, updates, envVars, turnVars,
                 histVars>>

\* SaveOffset with the write put off until after the turn
SaveOffset_Deferred(outcomes) ==
  /\ pc = "save_offset"
  /\ \E outcome \in outcomes :
       /\ offsetFile' = offsetFile
       /\ offOk' = (outcome = "ok")
  /\ pc' = "dispatch"
  /\ UNCHANGED <<srvVars, sessionFile, chatIdFile, mainVars, envVars, turnVars,
                 ran, ranOk, invoked, sessOk, prevObs>>

\* SaveOffset with the offset read back from the file when the write failed
SaveOffset_ReloadOnFailure(outcomes) ==
  /\ pc = "save_offset"
  /\ \E outcome \in outcomes :
       /\ offsetFile' = WriteFile(offsetFile, <<offset>>, outcome)
       /\ offOk' = (outcome = "ok")
       /\ offset' = IF outcome = "ok" THEN offset ELSE load_offset(offsetFile')
  /\ pc' = "dispatch"
  /\ UNCHANGED <<srvVars, sessionFile, chatIdFile, session_id, updates, batch,
                 envVars, turnVars, ran, ranOk, invoked, sessOk, prevObs>>

\* save_offset(offset)
SaveOffset(outcomes) ==
  /\ pc = "save_offset"
  /\ \E outcome \in outcomes :
       /\ offsetFile' = WriteFile(offsetFile, <<offset>>, outcome)
       /\ offOk' = (outcome = "ok")
  /\ pc' = "dispatch"
  /\ UNCHANGED <<srvVars, sessionFile, chatIdFile, mainVars, envVars, turnVars,
                 ran, ranOk, invoked, sessOk, prevObs>>

\* run_agent_streaming up to t.start(): the command line, the fresh shared
\* state of the turn, the reader thread started.
StartRun(prompt) ==
  /\ cmd' = [prompt |-> prompt, resume |-> session_id]
  /\ full_stdout_lines' = <<>> /\ proc_ref' = FALSE /\ process_done' = FALSE
  /\ timed_out' = FALSE
  /\ rpc' = "spawn" /\ proc' = NoProc /\ chat' = <<>>
  /\ UNCHANGED detached
  /\ ran' = ran \cup batch.ids
  /\ ranOk' = IF offOk THEN ranOk \cup batch.ids ELSE ranOk
  /\ invoked' = invoked + 1
  /\ pc' = "wait"

\* continue, or the end of the loop body: back to the poll. updates, the batch
\* and what was done for them are assigned anew before they are read again.
NextPass ==
  /\ pc' = "poll"
  /\ updates' = <<>> /\ batch' = EmptyBatch
  /\ invoked' = 0

\* Dispatch with save_chat_id ahead of the first skip
Dispatch_SaveChatIdFirst(outcomes) ==
  /\ pc = "dispatch"
  /\ IF batch.chat_id = None
     THEN /\ NextPass
          /\ UNCHANGED <<chatIdFile, turnVars, ran, ranOk>>
     ELSE IF batch.texts = <<>> /\ batch.images = <<>>
     THEN /\ \E outcome \in outcomes :
               chatIdFile' = WriteFile(chatIdFile, batch.chat_id, outcome)
          /\ NextPass
          /\ UNCHANGED <<turnVars, ran, ranOk>>
     ELSE \E outcome \in outcomes :
            /\ chatIdFile' = WriteFile(chatIdFile, batch.chat_id, outcome)
            /\ LET text == BuildPrompt(batch)
               IN IF Strip(text) = <<>>
                  THEN /\ NextPass
                       /\ UNCHANGED <<turnVars, ran, ranOk>>
                  ELSE /\ StartRun(text)
                       /\ UNCHANGED <<updates, batch>>
  /\ UNCHANGED <<srvVars, offsetFile, sessionFile, offset, session_id, envVars,
                 offOk, sessOk, prevObs>>
\* The rest of the loop body: the two skips, save_chat_id, the prompt, the
\* typing signal and the call of run_agent_streaming.
Dispatch(outcomes) ==
  /\ pc = "dispatch"
  /\ IF (batch.texts = <<>> /\ batch.images = <<>>) \/ batch.chat_id = None
     THEN /\ NextPass
          /\ UNCHANGED <<chatIdFile, turnVars, ran, ranOk>>
     ELSE \E outcome \in outcomes :
            /\ chatIdFile' = WriteFile(chatIdFile, batch.chat_id, outcome)
            /\ LET text == BuildPrompt(batch)
               IN IF Strip(text) = <<>>
                  THEN /\ NextPass
                       /\ UNCHANGED <<turnVars, ran, ranOk>>
                  ELSE /\ StartRun(text)
                       /\ UNCHANGED <<updates, batch>>
  /\ UNCHANGED <<srvVars, offsetFile, sessionFile, offset, session_id, envVars,
                 offOk, sessOk, prevObs>>

\* ------------------------------------------------------- the waiting loop
\* while not process_done.is_set(): time.sleep(1)
WaitCheck ==
  /\ pc = "wait"
  /\ pc' = IF process_done THEN "join" ELSE "tick"
  /\ UNCHANGED <<srvVars, fileVars, mainVars, envVars, turnVars, histVars>>

\* The body of the loop after the sleep. The clock is not modelled: with a
\* positive timeout_sec any pass may be the one that finds the budget spent,
\* and so may any pass be one on which the typing signal (every
\* TYPING_INTERVAL seconds) is due. The signal changes no state of the bot;
\* with logged it is recorded in chat, once for a run of consecutive signals.
\* On timeout the subprocess is killed if the reader has published its handle
\* and it has not exited.
WaitTick(logged) ==
  /\ pc = "tick"
  /\ \E expired \in BOOLEAN :
       /\ expired => timeout_sec > 0
       /\ IF expired
          THEN /\ proc' = IF proc_ref /\ proc.st = "running"
                          THEN [proc EXCEPT !.st = "killed"] ELSE proc
               /\ pc' = "notice"
               /\ UNCHANGED chat
          ELSE /\ pc' = "wait"
               /\ \E due \in {FALSE, logged} :
                    chat' = IF due /\ (chat = <<>> \/ chat[Len(chat)] # "typing")
                            THEN Append(chat, "typing") ELSE chat
               /\ UNCHANGED proc
  /\ UNCHANGED <<srvVars, fileVars, mainVars, envVars, cmd, timed_out,
                 full_stdout_lines, proc_ref, process_done, rpc, detached,
                 histVars>>

\* The timeout branch without its break
WaitNotice_NoBreak ==
  /\ pc = "notice"
  /\ \E sent \in BOOLEAN :
       IF sent
       THEN /\ chat' = Append(chat, "notice")
            /\ timed_out' = TRUE
            /\ pc' = "wait"
            /\ UNCHANGED <<mainVars, cmd, full_stdout_lines, proc_ref, process_done,
                           rpc, proc, detached, invoked, prevObs>>
       ELSE /\ ProcessGone
            /\ prevObs' = None
  /\ UNCHANGED <<srvVars, fileVars, envVars, ran, ranOk, offOk, sessOk>>

\* send_message(... "Agent timed out ..."), timed_out = True, break. A send
\* error other than the formatting rejection leaves run_agent_streaming and
\* main as an exception.
WaitNotice ==
  /\ pc = "notice"
  /\ \E sent \in BOOLEAN :
       IF sent
       THEN /\ chat' = Append(chat, "notice")
            /\ timed_out' = TRUE
            /\ pc' = "join"
            /\ UNCHANGED <<mainVars, cmd, full_stdout_lines, proc_ref, process_done,
                           rpc, proc, detached, invoked, prevObs>>
       ELSE /\ ProcessGone
            /\ prevObs' = None
  /\ UNCHANGED <<srvVars, fileVars, envVars, ran, ranOk, offOk, sessOk>>

\* The reader is inside a call that can outlast the 10 s of t.join.
ReaderBlocked ==
  \/ rpc \in {"spawn", "flush", "report"}
  \/ rpc = "read" /\ proc.pipe = <<>> /\ proc.st = "running"
  \/ rpc \in {"wait_ok", "wait_exc"} /\ proc.st = "running"

\* The last session value among the lines the reader has read
LastObserved(ls) ==
  LET bearing == {i \in 1..Len(ls) : ls[i].sid # <<>>}
  IN IF bearing = {} THEN None
     ELSE ls[CHOOSE i \in bearing : \A j \in bearing : j <= i].sid

\* JoinReturn without the fallback to the session the run was given
JoinReturn_NoFallback ==
  /\ pc = "join"
  /\ rpc = "finished" \/ ReaderBlocked
  /\ LET parsed == _parse_session_and_final_output(full_stdout_lines)
     IN IF parsed.raised
        THEN ProcessGone
        ELSE /\ session_id' = parsed.session_id
             /\ pc' = "save_session"
             /\ UNCHANGED <<offset, updates, batch, turnVars, invoked>>
  /\ prevObs' = LastObserved(full_stdout_lines)
  /\ UNCHANGED <<srvVars, fileVars, envVars, ran, ranOk, offOk, sessOk>>

\* t.join(timeout=10), the parse of what was read and the return.
JoinReturn ==
  /\ pc = "join"
  /\ rpc = "finished" \/ ReaderBlocked
  /\ LET parsed == _parse_session_and_final_output(full_stdout_lines)
     IN IF parsed.raised
        THEN ProcessGone
        ELSE /\ session_id' = IF parsed.session_id # None THEN parsed.session_id
                              ELSE cmd.resume
             /\ pc' = "save_session"
             /\ UNCHANGED <<offset, updates, batch, turnVars, invoked>>
  /\ prevObs' = LastObserved(full_stdout_lines)
  /\ UNCHANGED <<srvVars, fileVars, envVars, ran, ranOk, offOk, sessOk>>

\* save_session(session_id). The locals of the returned call are gone; a
\* reader that the bounded join left running goes on on its own, with its
\* subprocess, and is from here on only counted.
SaveSession(outcomes) ==
  /\ pc = "save_session"
  /\ IF session_id # None
     THEN \E outcome \in outcomes :
            /\ sessionFile' = WriteFile(sessionFile, session_id, outcome)
            /\ sessOk' = (outcome = "ok")
     ELSE UNCHANGED <<sessionFile, sessOk>>
  /\ NextPass
  /\ timed_out' = FALSE
  /\ cmd' = NoCmd
  /\ full_stdout_lines' = <<>> /\ proc_ref' = FALSE /\ process_done' = FALSE
  /\ rpc' = "idle" /\ proc' = NoProc /\ chat' = <<>>
  /\ detached' = IF ReaderAlive THEN detached + 1 ELSE detached
  /\ UNCHANGED <<srvVars, offsetFile, chatIdFile, offset, session_id, envVars,
                 ran, ranOk, offOk, prevObs>>

\* -------------------------------------------------------- the reader thread
\* subprocess.Popen(cmd, ...): the agent starts, or Popen raises. What the
\* agent writes (one of scripts) is put into the pipe here.
ReaderSpawn(scripts) ==
  /\ rpc = "spawn"
  /\ \/ \E script \in scripts :
          /\ proc' = [st |-> "running", pipe |-> script, rc |-> 0]
          /\ rpc' = "publish"
     \/ /\ rpc' = "report"
        /\ UNCHANGED proc
  /\ UNCHANGED <<srvVars, fileVars, pc, mainVars, envVars, cmd, timed_out,
                 full_stdout_lines, proc_ref, process_done, chat, detached, histVars>>

\* proc_ref[0] = proc
ReaderPublish ==
  /\ rpc = "publish"
  /\ proc_ref' = TRUE
  /\ rpc' = "read"
  /\ UNCHANGED <<srvVars, fileVars, pc, mainVars, envVars, cmd, timed_out,
                 full_stdout_lines, process_done, proc, chat, detached, histVars>>

\* The record in chat of the text of output line k
TextOfLine(k) == "text" \o ToString(k)

\* What the body of the read loop does with one line: "skip" (continue),
\* "flush" (text to surface) or "raise" (obj.get on a non-object).
Classify(line) ==
  IF line.kind = "malformed" THEN "skip"
  ELSE IF line.kind = "nonobject" THEN "raise"
  ELSE IF Lower(line.type) # "assistant" THEN "skip"
  ELSE IF Strip(line.text) # <<>> THEN "flush"
  ELSE "skip"

\* ReaderRead with the next line read while a flush is still to be made
ReaderRead_WhileFlushing ==
  /\ rpc \in {"read", "flush"}
  /\ IF proc.pipe # <<>>
     THEN LET line == Head(proc.pipe)
              what == Classify(line)
          IN /\ full_stdout_lines' = Append(full_stdout_lines, line)
             /\ proc' = [proc EXCEPT !.pipe = Tail(proc.pipe)]
             /\ rpc' = IF what = "flush" THEN "flush"
                       ELSE IF what = "raise" THEN "wait_exc" ELSE "read"
     ELSE /\ rpc = "read"
          /\ proc.st \in {"exited", "killed"}
          /\ rpc' = "wait_ok"
          /\ UNCHANGED <<full_stdout_lines, proc>>
  /\ UNCHANGED <<srvVars, fileVars, pc, mainVars, envVars, cmd, timed_out,
                 proc_ref, process_done, chat, detached, histVars>>

\* One proc.stdout.readline(): a line of the pipe, appended to
\* full_stdout_lines and classified, or end of file once the subprocess is
\* gone and the pipe is drained.
ReaderRead ==
  /\ rpc = "read"
  /\ IF proc.pipe # <<>>
     THEN LET line == Head(proc.pipe)
              what == Classify(line)
          IN /\ full_stdout_lines' = Append(full_stdout_lines, line)
             /\ proc' = [proc EXCEPT !.pipe = Tail(proc.pipe)]
             /\ rpc' = IF what = "flush" THEN "flush"
                       ELSE IF what = "raise" THEN "wait_exc" ELSE "read"
     ELSE /\ proc.st \in {"exited", "killed"}
          /\ rpc' = "wait_ok"
          /\ UNCHANGED <<full_stdout_lines, proc>>
  /\ UNCHANGED <<srvVars, fileVars, pc, mainVars, envVars, cmd, timed_out,
                 proc_ref, process_done, chat, detached, histVars>>

\* The flush of one surfaced text: the two drains, the attach-image photos
\* and send_message(text_clean); a send error other than the formatting
\* rejection is raised inside the read loop. With logged the record in chat
\* names the output line the text was taken from, the one read last.
ReaderFlush(logged) ==
  /\ rpc = "flush"
  /\ \E sent \in BOOLEAN :
       IF sent
       THEN /\ chat' = Append(chat, IF logged THEN TextOfLine(Len(full_stdout_lines))
                                    ELSE "text")
            /\ rpc' = "read"
       ELSE rpc' = "wait_exc" /\ UNCHANGED chat
  /\ UNCHANGED <<srvVars, fileVars, pc, mainVars, envVars, cmd, timed_out,
                 full_stdout_lines, proc_ref, process_done, proc, detached, histVars>>

\* finally: proc.wait() and the read of stderr, after the loop ended or raised.
ReaderWait ==
  /\ rpc \in {"wait_ok", "wait_exc"}
  /\ proc.st # "running"
  /\ rpc' = IF rpc = "wait_ok" THEN "setdone" ELSE "report"
  /\ UNCHANGED <<srvVars, fileVars, pc, mainVars, envVars, cmd, timed_out,
                 full_stdout_lines, proc_ref, process_done, proc, chat, detached,
                 histVars>>

\* except Exception: send_message(... "Error running agent: ...")
ReaderReport ==
  /\ rpc = "report"
  /\ \E sent \in BOOLEAN :
       chat' = IF sent THEN Append(chat, "error") ELSE chat
  /\ rpc' = "setdone"
  /\ UNCHANGED <<srvVars, fileVars, pc, mainVars, envVars, cmd, timed_out,
                 full_stdout_lines, proc_ref, process_done, proc, detached, histVars>>

\* finally: process_done.set(), and the thread ends.
ReaderSetDone ==
  /\ rpc = "setdone"
  /\ process_done' = TRUE
  /\ rpc' = "finished"
  /\ UNCHANGED <<srvVars, fileVars, pc, mainVars, envVars, cmd, timed_out,
                 full_stdout_lines, proc_ref, proc, chat, detached, histVars>>

\* A reader left behind by an earlier turn comes to its end.
DetachedEnds ==
  /\ detached > 0
  /\ detached' = detached - 1
  /\ UNCHANGED <<srvVars, fileVars, pc, mainVars, envVars, cmd, timed_out,
                 readVars, histVars>>

\* ---------------------------------------------------- the agent subprocess
\* The agent exits on its own (it may also never do so) with one of codes as
\* its return code.
AgentExit(codes) ==
  /\ proc.st = "running"
  /\ \E rc \in codes : proc' = [proc EXCEPT !.st = "exited", !.rc = rc]
  /\ UNCHANGED <<srvVars, fileVars, pc, mainVars, envVars, cmd, timed_out,
                 full_stdout_lines, proc_ref, process_done, rpc, chat, detached,
                 histVars>>

\* ------------------------------------------------------ crash and restart
\* The bot process dies at any point; inside save_offset or save_session the
\* file may already be truncated by open(path, "w").
Crash ==
  /\ pc # "down"
  /\ ProcessGone
  /\ prevObs' = None
  /\ \E truncated \in BOOLEAN :
       /\ truncated => pc \in {"save_offset", "save_session"}
       /\ truncated /\ pc = "save_session" => session_id # None
       /\ offsetFile' = IF truncated /\ pc = "save_offset" THEN <<>> ELSE offsetFile
       /\ sessionFile' = IF truncated /\ pc = "save_session" THEN <<>> ELSE sessionFile
       /\ sessOk' = IF truncated /\ pc = "save_session" THEN FALSE ELSE sessOk
  /\ offOk' = TRUE
  /\ UNCHANGED <<srvVars, chatIdFile, envVars, ran, ranOk>>

\* The supervisor starts main again: load_offset() and load_session().
Restart ==
  /\ pc = "down"
  /\ pc' = "poll"
  /\ offset' = load_offset(offsetFile)
  /\ session_id' = load_session(sessionFile)
  /\ UNCHANGED <<srv, fileVars, updates, batch, envVars, turnVars, histVars>>

Reader(scripts) ==
  \/ ReaderSpawn(scripts) \/ ReaderPublish \/ ReaderRead \/ ReaderFlush(FALSE)
  \/ ReaderWait \/ ReaderReport \/ ReaderSetDone

\* ---------------------------------------------------------- specifications
\* The relay engine under the default configuration (no run timeout), with
\* every shape of update, crashes and failing writes; the agent writes one
\* text event or nothing.
RelayScripts == {<<>>, <<AsstS2>>}

Next ==
  \/ UserSend(UpdateShapes) \/ Poll \/ BuildBatch
  \/ SaveOffset(WriteOutcomes) \/ Dispatch(WriteOutcomes)
  \/ WaitCheck \/ WaitTick(FALSE) \/ JoinReturn \/ SaveSession(WriteOutcomes)
  \/ Reader(RelayScripts) \/ AgentExit({0})
  \/ Crash \/ Restart

Spec == Init /\ [][Next]_vars

\* The same engine with CURSOR_AGENT_TIMEOUT set: the timeout branch of the
\* waiting loop and the bounded join come into play, the agent writes any of
\* Scripts, the allowed user sends plain texts, the offset and chat id writes
\* succeed, and the bot process dies only of its own exceptions.
TurnShapes == {MeA}

InitTimeout ==
  /\ Fresh /\ Boot /\ timeout_sec = 1
  /\ SendIdle /\ FlushIdle /\ DrainIdle /\ EventIdle /\ AgentIdle /\ RemIdle

NextTimeout ==
  \/ UserSend(TurnShapes) \/ Poll \/ BuildBatch
  \/ SaveOffset({"ok"}) \/ Dispatch({"ok"})
  \/ WaitCheck \/ WaitTick(FALSE) \/ WaitNotice \/ JoinReturn \/ SaveSession(WriteOutcomes)
  \/ Reader(Scripts) \/ DetachedEnds \/ AgentExit({0, 1})
  \/ Restart

SpecTimeout == InitTimeout /\ [][NextTimeout]_vars

\* The waiting loop with its typing signals on record: a timeout is set, the
\* agent writes nothing or one assistant event, and every write of the main
\* thread succeeds.
BeatScripts == {<<>>, <<AsstS2>>}

NextBeat ==
  \/ UserSend(TurnShapes) \/ Poll \/ BuildBatch
  \/ SaveOffset({"ok"}) \/ Dispatch({"ok"})
  \/ WaitCheck \/ WaitTick(TRUE) \/ WaitNotice \/ JoinReturn \/ SaveSession({"ok"})
  \/ Reader(BeatScripts) \/ DetachedEnds \/ AgentExit({0})
  \/ Restart

SpecBeat == InitTimeout /\ [][NextBeat]_vars

\* The default configuration with the texts in the chat on record by output
\* line: every write succeeds, the agent writes up to MaxLines lines of which
\* any may be an assistant event.
OrderScripts == UNION {[1..n -> {SysS1, AsstS2, Malformed}] : n \in 0..MaxLines}

NextOrder ==
  \/ UserSend(TurnShapes) \/ Poll \/ BuildBatch
  \/ SaveOffset({"ok"}) \/ Dispatch({"ok"})
  \/ WaitCheck \/ WaitTick(FALSE) \/ JoinReturn \/ SaveSession({"ok"})
  \/ ReaderSpawn(OrderScripts) \/ ReaderPublish \/ ReaderRead \/ ReaderFlush(TRUE)
  \/ ReaderWait \/ ReaderReport \/ ReaderSetDone
  \/ AgentExit({0}) \/ Restart

SpecOrder == Init /\ [][NextOrder]_vars

\* One life of the bot process in which the allowed user writes in two chats:
\* every write succeeds, the agent writes nothing or one assistant event.
ChatShapes == {MeA, MeBlank, MeGroup, OtherU}

NextChat ==
  \/ UserSend(ChatShapes) \/ Poll \/ BuildBatch
  \/ SaveOffset({"ok"}) \/ Dispatch({"ok"})
  \/ WaitCheck \/ WaitTick(TRUE) \/ JoinReturn \/ SaveSession({"ok"})
  \/ Reader(BeatScripts) \/ AgentExit({0})

SpecChat == Init /\ [][NextChat]_vars

\* The default configuration with an agent that writes more than its stdout
\* pipe holds: what fits is in the pipe when the agent has started, the lines
\* of todo follow one by one as the reader makes room, and the agent exits
\* (it always does, sooner or later) when it has written them all. The pipe
\* holds PipeCap lines.
PipeCap == 1

LiveScripts == UNION {[1..n -> {AsstS2, NonObject}] : n \in 0..PipeCap}

InitLive ==
  /\ Fresh /\ Boot /\ timeout_sec = 0
  /\ SendIdle /\ FlushIdle /\ DrainIdle /\ EventIdle /\ RemIdle
  /\ todo \in UNION {[1..n -> {AsstS2}] : n \in 0..MaxLines}

\* The agent's write to its stdout, which blocks while the pipe is full.
AgentWrite ==
  /\ proc.st = "running" /\ todo # <<>>
  /\ Len(proc.pipe) < PipeCap
  /\ proc' = [proc EXCEPT !.pipe = Append(proc.pipe, Head(todo))]
  /\ todo' = Tail(todo)
  /\ UNCHANGED <<srvVars, fileVars, pc, mainVars, timeout_sec, sendVars, flushVars,
                 drainVars, eventVars, remVars, cmd, timed_out, full_stdout_lines,
                 proc_ref,
                 process_done, rpc, chat, detached, histVars>>

\* The agent exits after its last write.
AgentDone == todo = <<>> /\ AgentExit({0})

NextLive ==
  \/ UserSend(TurnShapes) \/ Poll \/ BuildBatch
  \/ SaveOffset({"ok"}) \/ Dispatch({"ok"})
  \/ WaitCheck \/ WaitTick(FALSE) \/ JoinReturn \/ SaveSession({"ok"})
  \/ Reader(LiveScripts) \/ AgentWrite \/ AgentDone
  \/ Restart

\* Fair scheduling: the main thread, the reader thread and the agent each
\* take the step they can take.
FairLive ==
  /\ WF_vars(BuildBatch) /\ WF_vars(SaveOffset({"ok"})) /\ WF_vars(Dispatch({"ok"}))
  /\ WF_vars(WaitCheck) /\ WF_vars(WaitTick(FALSE)) /\ WF_vars(JoinReturn)
  /\ WF_vars(SaveSession({"ok"}))
  /\ WF_vars(Reader(LiveScripts))
  /\ WF_vars(AgentWrite) /\ WF_vars(AgentDone)

SpecLive == InitLive /\ [][NextLive]_vars /\ FairLive

\* ---------------------------------------------------------- run_reminders
\* The timer starts run_reminders.py up to MaxRuns times, a run possibly
\* while another is under way; reminders.json holds up to MaxReminders
\* entries; the clock goes from 0 to MaxClock.
MaxReminders == 2
MaxRuns      == 2
MaxClock     == 2

\* The values of the "at" field: absent or empty, no ISO date, and the ISO
\* dates of the moments 1 and 2
AtValues == {"", "x", "1", "2"}

\* datetime.fromisoformat(at_str): the moment, or ValueError
fromisoformat(at_str) ==
  IF at_str = "1" THEN [ok |-> TRUE, at |-> 1]
  ELSE IF at_str = "2" THEN [ok |-> TRUE, at |-> 2]
  ELSE [ok |-> FALSE, at |-> 0]

\* An entry of the list: an object with "at" and with or without "prompt",
\* or something that is no object
Entries(id) ==
  [id : {id}, dict : {TRUE}, at : AtValues, prompt : BOOLEAN]
    \cup {[id |-> id, dict |-> FALSE, at |-> "", prompt |-> FALSE]}

\* The lists the file may hold at the start
ReminderLists ==
  UNION { {f \in [1..n -> UNION {Entries(id) : id \in 1..n}] :
             \A k \in 1..n : f[k].id = k} : n \in 0..MaxReminders }

\* The for loop of main over the reminders loaded: due and remaining
RECURSIVE Sift(_, _, _)
Sift(reminders, now, acc) ==
  IF reminders = <<>> THEN acc
  ELSE LET r    == Head(reminders)
           rest == Tail(reminders)
           keep == [acc EXCEPT !.remaining = Append(acc.remaining, r)]
       IN IF ~r.dict THEN Sift(rest, now, keep)
          ELSE IF r.at = "" THEN Sift(rest, now, keep)
          ELSE IF ~fromisoformat(r.at).ok THEN Sift(rest, now, keep)
          ELSE IF fromisoformat(r.at).at <= now
          THEN Sift(rest, now, [acc EXCEPT !.due = Append(acc.due, r)])
          ELSE Sift(rest, now, keep)

NoRun == [pc |-> "idle", now |-> 0, due |-> <<>>, remaining |-> <<>>]

InitReminders ==
  /\ Fresh /\ Boot /\ timeout_sec = 0
  /\ SendIdle /\ FlushIdle /\ DrainIdle /\ EventIdle /\ AgentIdle
  /\ reminders_file \in ReminderLists
  /\ run = [r \in 1..MaxRuns |-> NoRun]
  /\ handled = <<>> /\ clock = 0

\* Time passes.
Tick ==
  /\ clock < MaxClock
  /\ clock' = clock + 1
  /\ UNCHANGED <<restVars, reminders_file, run, handled>>

\* The timer starts run r: now = datetime.now(), load_reminders() and the
\* for loop that tells the due reminders from the remaining ones. A file
\* that open(path, "w") has just emptied is read as no reminders.
RunLoad(r) ==
  /\ run[r].pc = "idle"
  /\ LET sifted == Sift(reminders_file, clock, [due |-> <<>>, remaining |-> <<>>])
     IN run' = [run EXCEPT ![r] =
                  [pc |-> IF sifted.due # <<>> THEN "open" ELSE "done",
                   now |-> clock, due |-> sifted.due,
                   remaining |-> sifted.remaining]]
  /\ UNCHANGED <<restVars, reminders_file, handled, clock>>

\* save_reminders(remaining): open(REMINDERS_FILE, "w") empties the file
RunOpen(r) ==
  /\ run[r].pc = "open"
  /\ reminders_file' = <<>>
  /\ run' = [run EXCEPT ![r].pc = "dump"]
  /\ UNCHANGED <<restVars, handled, clock>>

\* save_reminders(remaining): json.dump writes the remaining reminders
RunDump(r) ==
  /\ run[r].pc = "dump"
  /\ reminders_file' = run[r].remaining
  /\ run' = [run EXCEPT ![r].pc = "process"]
  /\ UNCHANGED <<restVars, handled, clock>>

\* One pass of for r in due: the agent run for a prompt reminder and the
\* send, or the send of the text; a failure of either is only printed.
RunProcess(r) ==
  /\ run[r].pc = "process"
  /\ IF run[r].due = <<>>
     THEN /\ run' = [run EXCEPT ![r].pc = "done"]
          /\ UNCHANGED handled
     ELSE /\ handled' = Append(handled, [id |-> Head(run[r].due).id, by |-> r])
          /\ run' = [run EXCEPT ![r].due = Tail(run[r].due)]
  /\ UNCHANGED <<restVars, reminders_file, clock>>

NextReminders ==
  \/ Tick
  \/ \E r \in 1..MaxRuns : RunLoad(r)
  \/ \E r \in 1..MaxRuns : RunOpen(r)
  \/ \E r \in 1..MaxRuns : RunDump(r)
  \/ \E r \in 1..MaxRuns : RunProcess(r)

SpecReminders == InitReminders /\ [][NextReminders]_vars

\* ----------------------------------------------------------- send_message
\* chunk = 4096
chunk == 4096

\* The lengths of the texts sent: around every multiple of chunk up to
\* MaxChunks chunks, and 9000.
Lengths ==
  {k * chunk + d : k \in 0..(MaxChunks - 1), d \in {0, 1, chunk - 1}}
    \cup {MaxChunks * chunk, 9000}

\* A text of length n. Each unit is its own position, so that a unit lost,
\* repeated or out of place shows.
TextOfLen(n) == [j \in 1..n |-> j]

Min(a, b) == IF a < b THEN a ELSE b

\* text[i : i + chunk], with i counted from 0 as in the code
Part_Overlap(str, at) == SubSeq(str, at + 1, Min(at + chunk + 1, Len(str)))
Part(str, at) == SubSeq(str, at + 1, Min(at + chunk, Len(str)))

\* What one api(token, "sendMessage", ...) comes to: it returns, it raises
\* HTTPError with code 400, HTTPError with another code, or another error.
SendOutcomes == {"ok", "http400", "httperror", "error"}

\* for i in range(0, len(text), chunk): the next value of i, or the return.
LoopTo(at) ==
  IF at < Len(msg_text)
  THEN msg_i' = at /\ msg_pc' = "first"
  ELSE msg_pc' = "returned" /\ UNCHANGED msg_i

\* send_message(token, chat_id, text) is called with the default parse_mode.
InitSend ==
  /\ Fresh /\ Boot /\ timeout_sec = 0 /\ FlushIdle /\ DrainIdle /\ EventIdle /\ AgentIdle /\ RemIdle
  /\ \E n \in Lengths :
       /\ msg_text = TextOfLen(n)
       /\ msg_i = 0
       /\ msg_pc = IF n > 0 THEN "first" ELSE "returned"
  /\ msg_calls = <<>>

\* try: api(..., text=part, parse_mode=parse_mode), and the except branch
\* up to its choice between the resend and raise.
SendFirst_RetryAnyHTTPError ==
  /\ msg_pc = "first"
  /\ \E outcome \in SendOutcomes :
       /\ msg_calls' = Append(msg_calls, [text |-> Part(msg_text, msg_i),
                                         parse_mode |-> "Markdown",
                                         outcome |-> outcome])
       /\ IF outcome = "ok" THEN LoopTo(msg_i + chunk)
          ELSE IF outcome \in {"http400", "httperror"}
          THEN msg_pc' = "plain" /\ UNCHANGED msg_i
          ELSE msg_pc' = "raised" /\ UNCHANGED msg_i
  /\ UNCHANGED <<msg_text, botVars, flushVars, drainVars>>
SendFirst ==
  /\ msg_pc = "first"
  /\ \E outcome \in SendOutcomes :
       /\ msg_calls' = Append(msg_calls, [text |-> Part(msg_text, msg_i),
                                         parse_mode |-> "Markdown",
                                         outcome |-> outcome])
       /\ IF outcome = "ok" THEN LoopTo(msg_i + chunk)
          ELSE IF outcome = "http400"
          THEN msg_pc' = "plain" /\ UNCHANGED msg_i
          ELSE msg_pc' = "raised" /\ UNCHANGED msg_i
  /\ UNCHANGED <<msg_text, botVars, flushVars, drainVars>>

\* api(token, "sendMessage", chat_id=chat_id, text=part) inside the except
\* branch: whatever it raises leaves send_message.
SendPlain ==
  /\ msg_pc = "plain"
  /\ \E outcome \in SendOutcomes :
       /\ msg_calls' = Append(msg_calls, [text |-> Part(msg_text, msg_i),
                                         parse_mode |-> "omitted",
                                         outcome |-> outcome])
       /\ IF outcome = "ok" THEN LoopTo(msg_i + chunk)
          ELSE msg_pc' = "raised" /\ UNCHANGED msg_i
  /\ UNCHANGED <<msg_text, botVars, flushVars, drainVars>>

NextSend == SendFirst \/ SendPlain

SpecSend == InitSend /\ [][NextSend]_vars

\* ------------------------------------------------- the flush of one text
\* The reader has taken the text of an assistant event.
InitFlush ==
  /\ Fresh /\ Boot /\ timeout_sec = 0 /\ SendIdle /\ DrainIdle /\ EventIdle /\ AgentIdle /\ RemIdle
  /\ ev_text \in Texts
  /\ attach_paths = <<>> /\ text_without_attach = <<>>
  /\ fl_sends = <<>> /\ fl_pc = "strip"

\* to_send = text.strip(); if to_send: (the drains,) extract_attach_image_paths
FlushExtract ==
  /\ fl_pc = "strip"
  /\ LET to_send == Strip(ev_text)
     IN IF to_send # <<>>
        THEN LET r == extract_attach_image_paths(to_send)
             IN /\ attach_paths' = r.paths
                /\ text_without_attach' = r.text
                /\ fl_pc' = "photos"
        ELSE /\ fl_pc' = "done"
             /\ UNCHANGED <<attach_paths, text_without_attach>>
  /\ UNCHANGED <<ev_text, fl_sends, botVars, sendVars, drainVars>>

\* for path in attach_paths: send_photo(token, chat_id, path)
FlushPhoto ==
  /\ fl_pc = "photos" /\ attach_paths # <<>>
  /\ fl_sends' = Append(fl_sends, [what |-> "photo", of |-> Head(attach_paths)])
  /\ attach_paths' = Tail(attach_paths)
  /\ UNCHANGED <<ev_text, text_without_attach, fl_pc, botVars, sendVars, drainVars>>

\* text_clean = collapse_blank_lines(text_without_attach).strip();
\* if text_clean: send_message(token, chat_id, text_clean), which returns or
\* raises.
FlushText ==
  /\ fl_pc = "photos" /\ attach_paths = <<>>
  /\ LET text_clean == Strip(collapse_blank_lines(text_without_attach))
     IN IF text_clean # <<>>
        THEN /\ fl_sends' = Append(fl_sends, [what |-> "text", of |-> text_clean])
             /\ fl_pc' \in {"done", "raised"}
        ELSE /\ fl_pc' = "done"
             /\ UNCHANGED fl_sends
  /\ UNCHANGED <<ev_text, attach_paths, text_without_attach, botVars, sendVars, drainVars>>

NextFlush == FlushExtract \/ FlushPhoto \/ FlushText

SpecFlush == InitFlush /\ [][NextFlush]_vars

\* --------------------------------------- from an output event to its flush
\* The values of the role, type and messageType fields ("": absent)
Roles        == {"", "Assistant", "thinking"}
Types        == {"", "assistant", "result", "user"}
MessageTypes == {"", "assistant"}

\* A field value that is truthy and no str: a list, an object, a number
NotStr == <<"[]">>

\* The objects the agent may write as one line. parts holds the text of each
\* part of type "text" in message.content, in order (<<>>: no message, no
\* list, or no such part); a flat field is <<>> when absent, null or "".
Events ==
  [role : Roles, type : Types, messageType : MessageTypes,
   parts : {<<>>, << <<>> >>, << <<" ">> >>, << <<"a">>, <<"@", "p">> >>},
   content : {<<>>, <<" ">>, <<"a">>, NotStr},
   text : {<<>>, <<"a", " ">>},
   delta : {<<>>, <<"@", "p">>},
   result : {<<>>, <<"a">>},
   output : {<<>>, NotStr}]

\* a or b on field values (<<>> is falsy) and on type names ("" is falsy)
Or(a, b) == IF a # <<>> THEN a ELSE b
OrName(a, b) == IF a # "" THEN a ELSE b

\* (obj.get("role") or obj.get("type") or obj.get("messageType") or "").lower()
MsgType(o) == Lower(OrName(o.role, OrName(o.type, OrName(o.messageType, ""))))

\* The three tests of msg_type passed by any type but thinking and result
SkippedType_OnlyThinkingResult(msg_type) == msg_type \in {"thinking", "result"}

\* if msg_type == "thinking" / == "result" / != "assistant": continue
SkippedType(msg_type) ==
  msg_type = "thinking" \/ msg_type = "result" \/ msg_type # "assistant"

\* The search for the text: the text parts of message.content joined if there
\* is any, else the first truthy one of the flat fields, else the last one.
LocateText(o) ==
  IF o.parts # <<>> THEN Join(<<>>, o.parts)
  ELSE Or(o.content, Or(o.text, Or(o.delta, Or(o.result, o.output))))

InitEvent ==
  /\ Fresh /\ Boot /\ timeout_sec = 0 /\ SendIdle /\ DrainIdle /\ AgentIdle /\ RemIdle
  /\ obj \in Events
  /\ ev_text = <<>> /\ attach_paths = <<>> /\ text_without_attach = <<>>
  /\ fl_sends = <<>> /\ fl_pc = "parsed"

\* The body of the read loop from msg_type down to isinstance(text, str):
\* continue, or on to the flush with the text found.
ReadEvent ==
  /\ fl_pc = "parsed"
  /\ IF SkippedType(MsgType(obj)) \/ LocateText(obj) = NotStr
     THEN /\ fl_pc' = "skipped"
          /\ UNCHANGED ev_text
     ELSE /\ ev_text' = LocateText(obj)
          /\ fl_pc' = "strip"
  /\ UNCHANGED <<attach_paths, text_without_attach, fl_sends, botVars, sendVars,
                 drainVars>>

NextEvent == ReadEvent \/ FlushExtract \/ FlushPhoto \/ FlushText

SpecEvent == InitEvent /\ [][NextEvent]_vars

\* ------------------------------------------- the drains inside a flush
InitDrain ==
  /\ Fresh /\ Boot /\ timeout_sec = 0
  /\ SendIdle /\ FlushIdle /\ DrainIdle /\ EventIdle /\ AgentIdle /\ RemIdle

\* The ranks of the names in use, in a folder or sent in this flush
Ranks ==
  {f.rank : f \in pending_attachments \cup pending_images}
    \cup {dr_sends[k].rank : k \in DOMAIN dr_sends}

\* attach_file.py, attach_image.py or whoever else writes into a folder puts
\* a file there, at any moment. born is the number of flushes begun by then.
Queue ==
  /\ \E rank \in (1..MaxFiles) \ Ranks, ext \in Exts, dir \in {"att", "img"} :
       LET f == [rank |-> rank, ext |-> ext, dir |-> dir, born |-> flush_no]
       IN IF dir = "att"
          THEN pending_attachments' = pending_attachments \cup {f}
               /\ UNCHANGED pending_images
          ELSE pending_images' = pending_images \cup {f}
               /\ UNCHANGED pending_attachments
  /\ UNCHANGED <<names, listed, dr_sends, flush_no, dr_pc,
                 botVars, sendVars, flushVars>>

\* if to_send: the reader comes to a text to surface.
FlushBegin ==
  /\ dr_pc = "idle" /\ flush_no < MaxFlushes
  /\ flush_no' = flush_no + 1
  /\ dr_sends' = <<>> /\ listed' = {}
  /\ dr_pc' = "att_list"
  /\ UNCHANGED <<dirVars, names, botVars, sendVars, flushVars>>

\* send_pending_attachments: sorted(os.listdir(PENDING_ATTACHMENTS_DIR))
AttachmentsList ==
  /\ dr_pc = "att_list"
  /\ names' = Sorted(pending_attachments)
  /\ listed' = pending_attachments
  /\ dr_pc' = "att_loop"
  /\ UNCHANGED <<dirVars, dr_sends, flush_no, botVars, sendVars, flushVars>>

\* One turn of its loop: send_photo or send_document, whose failure is
\* passed over, and os.unlink, after which the file is not in the folder
\* (its OSError, passed over too, is taken to be that of a file already
\* gone); or the end of the listing.
AttachmentsNext_KeepOnFailure ==
  /\ dr_pc = "att_loop"
  /\ IF names # <<>>
     THEN LET f == Head(names)
          IN \E ok \in BOOLEAN :
               /\ dr_sends' = Append(dr_sends,
                    [what |-> IF IsImage(f) THEN "photo" ELSE "document",
                     rank |-> f.rank, ext |-> f.ext, dir |-> f.dir,
                     born |-> f.born, ok |-> ok, flush |-> flush_no])
               /\ pending_attachments' =
                    IF ok THEN pending_attachments \ {f} ELSE pending_attachments
               /\ names' = Tail(names)
               /\ UNCHANGED dr_pc
     ELSE /\ dr_pc' = "img_list"
          /\ UNCHANGED <<pending_attachments, names, dr_sends>>
  /\ UNCHANGED <<pending_images, listed, flush_no, botVars, sendVars, flushVars>>
AttachmentsNext ==
  /\ dr_pc = "att_loop"
  /\ IF names # <<>>
     THEN LET f == Head(names)
          IN \E ok \in BOOLEAN :
               /\ dr_sends' = Append(dr_sends,
                    [what |-> IF IsImage(f) THEN "photo" ELSE "document",
                     rank |-> f.rank, ext |-> f.ext, dir |-> f.dir,
                     born |-> f.born, ok |-> ok, flush |-> flush_no])
               /\ pending_attachments' = pending_attachments \ {f}
               /\ names' = Tail(names)
               /\ UNCHANGED dr_pc
     ELSE /\ dr_pc' = "img_list"
          /\ UNCHANGED <<pending_attachments, names, dr_sends>>
  /\ UNCHANGED <<pending_images, listed, flush_no, botVars, sendVars, flushVars>>

\* send_pending_images: sorted(os.listdir(PENDING_IMAGES_DIR))
ImagesList_Skipped ==
  /\ dr_pc = "img_list"
  /\ names' = <<>>
  /\ listed' = pending_images
  /\ dr_pc' = "img_loop"
  /\ UNCHANGED <<dirVars, dr_sends, flush_no, botVars, sendVars, flushVars>>
ImagesList ==
  /\ dr_pc = "img_list"
  /\ names' = Sorted(pending_images)
  /\ listed' = pending_images
  /\ dr_pc' = "img_loop"
  /\ UNCHANGED <<dirVars, dr_sends, flush_no, botVars, sendVars, flushVars>>

\* One turn of its loop: a name without an image ending is passed over
\* (continue), any other file is sent as a photo and unlinked.
ImagesNext ==
  /\ dr_pc = "img_loop"
  /\ IF names # <<>>
     THEN LET f == Head(names)
          IN /\ IF IsImage(f)
                THEN \E ok \in BOOLEAN :
                       /\ dr_sends' = Append(dr_sends,
                            [what |-> "photo",
                             rank |-> f.rank, ext |-> f.ext, dir |-> f.dir,
                             born |-> f.born, ok |-> ok, flush |-> flush_no])
                       /\ pending_images' = pending_images \ {f}
                ELSE UNCHANGED <<pending_images, dr_sends>>
             /\ names' = Tail(names)
             /\ UNCHANGED dr_pc
     ELSE /\ dr_pc' = "text"
          /\ UNCHANGED <<pending_images, names, dr_sends>>
  /\ UNCHANGED <<pending_attachments, listed, flush_no, botVars, sendVars, flushVars>>

\* The rest of the flush: if text_clean: send_message(...), which returns or
\* raises; raised, the read loop is left and no flush follows.
FlushSend ==
  /\ dr_pc = "text"
  /\ \/ /\ dr_sends' = Append(dr_sends,
               [what |-> "text", rank |-> 0, ext |-> "", dir |-> "",
                born |-> 0, ok |-> TRUE, flush |-> flush_no])
        /\ dr_pc' = "idle"
     \/ /\ dr_sends' = Append(dr_sends,
               [what |-> "text", rank |-> 0, ext |-> "", dir |-> "",
                born |-> 0, ok |-> FALSE, flush |-> flush_no])
        /\ dr_pc' = "raised"
     \/ /\ dr_pc' = "idle"
        /\ UNCHANGED dr_sends
  /\ UNCHANGED <<dirVars, names, listed, flush_no, botVars, sendVars, flushVars>>

NextDrain ==
  \/ Queue \/ FlushBegin
  \/ AttachmentsList \/ AttachmentsNext
  \/ ImagesList \/ ImagesNext
  \/ FlushSend

SpecDrain == InitDrain /\ [][NextDrain]_vars

\* ------------------------------------------------------------- properties
\* The largest update id of a poll response
MaxUpdateId(upds) ==
  LET ids == {upds[i].update_id : i \in 1..Len(upds)}
  IN CHOOSE m \in ids : \A k \in ids : k <= m

\* C1 as stated: once a non-empty poll response has been handled (the offset
\* saved, the batch about to be dispatched), the persisted offset equals the
\* largest update id of the response plus one.
C1_PersistedOffsetAfterResponse ==
  pc = "dispatch" => offsetFile = <<MaxUpdateId(updates) + 1>>

\* C1 amended: once a non-empty poll response has been handled, the in-memory
\* offset equals the largest update id of the response plus one, whether or
\* not an update was accepted, and the persisted offset equals it whenever
\* the write of the offset file succeeded.
C1_OffsetAfterResponse ==
  pc = "dispatch" =>
    /\ offset = MaxUpdateId(updates) + 1
    /\ offOk => offsetFile = <<MaxUpdateId(updates) + 1>>

\* C1 witness: a response of which nothing was accepted has been handled and
\* the offset file holds the largest id plus one.
C1_Witness ==
  /\ pc = "dispatch" /\ offOk /\ batch.ids = {}
  /\ offsetFile = <<MaxUpdateId(updates) + 1>>

\* The updates of a poll response that carry a message of the allowed user
FromAllowed(upds) ==
  {upds[i] : i \in {j \in 1..Len(upds) :
                     upds[j].u.msg /\ upds[j].u.from = allowed_user_id}}

\* The image references the batch loop can give to the photo of update e
PhotoNames(e, upds) == {PhotoName(e.update_id, i) : i \in 0..Len(upds)}

\* C2: whenever a batch built from the current poll response exists, every
\* text, image reference and the chat id in it come from an update of the
\* allowed sender, the prompt of the turn holds no text, caption or image
\* reference of another sender, and the agent has been invoked for the
\* response only if it holds an update of the allowed sender.
C2_OnlyAllowedSender ==
  pc # "batch" =>
    LET mine   == FromAllowed(updates)
        others == {updates[i] : i \in 1..Len(updates)} \ mine
        said   == {Strip(e.u.text) : e \in mine} \cup {Strip(e.u.caption) : e \in mine}
    IN /\ \A k \in 1..Len(batch.texts) : batch.texts[k] \in said
       /\ \A k \in 1..Len(batch.images) :
            \E e \in mine : batch.images[k] \in PhotoNames(e, updates)
       /\ batch.chat_id # None => \E e \in mine : batch.chat_id = <<e.u.chat>>
       /\ batch.ids \subseteq {e.update_id : e \in mine}
       /\ \A k \in 1..Len(cmd.prompt) : \A e \in others :
            /\ cmd.prompt[k] \notin {e.u.text[j] : j \in 1..Len(e.u.text)}
            /\ cmd.prompt[k] \notin {e.u.caption[j] : j \in 1..Len(e.u.caption)}
            /\ cmd.prompt[k] \notin PhotoNames(e, updates)
       /\ invoked > 0 => mine # {}

\* C2 witness: the agent runs for a response that held an update of another
\* sender next to one of the allowed user, and the prompt is the latter's text.
C2_Witness ==
  /\ pc = "wait" /\ cmd.prompt = <<"a">>
  /\ \E i \in 1..Len(updates) : updates[i].u = OtherU

\* The texts of a poll response the batcher accepts, in update order: those
\* of the allowed user that are not empty once trimmed, as trimmed.
AcceptedTexts(upds) ==
  LET acc == SelectSeq(upds, LAMBDA e : /\ e.u.msg /\ e.u.from = allowed_user_id
                                        /\ Strip(e.u.text) # <<>>)
  IN [i \in 1..Len(acc) |-> Strip(acc[i].u.text)]

\* The allowed user sent no photo in the poll response
TextOnly(upds) == \A e \in FromAllowed(upds) : ~e.u.photo

\* C3: for a poll response whose accepted updates are text-only and n >= 1
\* in number, the agent is invoked exactly once for the response - not before
\* the batch is dispatched, once from then on until the turn has returned -
\* and the prompt of that one invocation is the accepted texts in update
\* order joined by a blank line.
C3_OneInvocationPerResponse ==
  (TextOnly(updates) /\ AcceptedTexts(updates) # <<>>) =>
    /\ pc \in {"batch", "save_offset", "dispatch"} => invoked = 0
    /\ pc \in TurnPcs \cup {"save_session"} => invoked = 1
    /\ pc \in TurnPcs \cup {"save_session"} =>
         cmd.prompt = Join(<<"\n", "\n">>, AcceptedTexts(updates))

\* C3 witness: two texts of one response run as one prompt.
C3_Witness ==
  /\ pc = "wait" /\ invoked = 1 /\ Len(updates) = 2
  /\ AcceptedTexts(updates) = << <<"a">>, <<"b">> >>
  /\ cmd.prompt = <<"a", "\n", "\n", "b">>

\* C4 as stated: no update is included in the prompt of more than one agent
\* invocation, whatever polls, turns, crashes and restarts have happened.
C4_NoUpdateRunTwice ==
  [][(pc = "dispatch" /\ pc' = "wait") => batch.ids \cap ran = {}]_vars

\* C4 amended: an update that was included in the prompt of an invocation
\* started after a successful write of the offset file is never included in
\* the prompt of a later invocation, whatever polls, turns, crashes (also
\* during the run or in the middle of a later write of the offset file) and
\* restarts happen.
C4_NoRerunOncePersisted ==
  [][(pc = "dispatch" /\ pc' = "wait") => batch.ids \cap ranOk = {}]_vars

\* C4 witness: the bot process is down after update 1 was run with the offset
\* persisted past it, while the platform still holds update 1 unconfirmed.
C4_Witness ==
  /\ pc = "down" /\ 1 \in ranOk /\ offsetFile = <<2>>
  /\ \E i \in 1..Len(srv.queue) : srv.queue[i].update_id = 1

\* C5: while a turn is under way for a batch whose offset write succeeded -
\* from the start of the reader thread, so before the agent subprocess is
\* spawned, until the turn has returned - the offset file holds the last
\* update id of the response plus one and so points past every update of it.
C5_OffsetPersistedBeforeSpawn ==
  (pc \in TurnPcs \cup {"save_session"} /\ offOk) =>
    /\ offsetFile = <<updates[Len(updates)].update_id + 1>>
    /\ \A i \in 1..Len(updates) : updates[i].update_id < offsetFile[1]

\* C5 witness: the reader thread is about to spawn the agent for a batch and
\* the offset file already points past it.
C5_Witness ==
  /\ pc = "wait" /\ rpc = "spawn" /\ proc.st = "none" /\ offOk
  /\ batch.ids # {} /\ offsetFile = <<offset>>

\* C6 as stated, its persisted half: no step - poll response, failed poll,
\* turn, crash, restart - makes the persisted offset (what load_offset reads
\* from the file) smaller than it was.
C6_OffsetNeverDecreases ==
  [][load_offset(offsetFile') >= load_offset(offsetFile)]_vars

\* C6 amended: while the bot process lives no step makes the in-memory
\* offset smaller, and the offset file never comes to hold a smaller number
\* than before: it keeps its number, takes a larger one, or is left empty by
\* a failed or interrupted write. A restart takes what the file holds.
C6_OffsetMonotoneWhileAlive ==
  [][/\ (pc # "down" /\ pc' # "down") => offset' >= offset
     /\ pc = "down" => offset' = load_offset(offsetFile)
     /\ (offsetFile # <<>> /\ offsetFile' # <<>>) => offsetFile'[1] >= offsetFile[1]]_vars

\* C6 witness: a second poll response has been handled and both the offset
\* and the offset file have moved on to past its update.
C6_Witness ==
  /\ pc = "dispatch" /\ Len(updates) = 1 /\ updates[1].update_id = 2
  /\ offset = 3 /\ offsetFile = <<3>>

\* C7 as stated, read in the code's favour: while a run is under way whose
\* predecessor last observed the session value S - no session write having
\* failed since - its resume argument is S, or S as load_session trims it
\* after a restart.
C7_ResumeIsLastObserved ==
  (pc \in TurnPcs /\ prevObs # None /\ sessOk) =>
    cmd.resume \in {prevObs, Strip(prevObs)}

\* C8 as stated: when a turn that timed out returns, its subprocess is not
\* left running and exactly one timeout notice has been sent.
C8_TimeoutKillsSubprocess ==
  (pc = "save_session" /\ timed_out) =>
    /\ proc.st # "running"
    /\ Cardinality({i \in 1..Len(chat) : chat[i] = "notice"}) = 1

\* C9 as stated: the session value a timed-out run returns is the value the
\* run was given, whatever the agent wrote before the timeout.
C9_TimeoutLeavesSession ==
  (pc = "save_session" /\ timed_out) => session_id = cmd.resume

\* C9 amended: a timed-out run never clears the session. The value it
\* returns is the last session value among the output lines read before the
\* return or, if there is none, the value the run was given; that value is
\* what save_session then writes when the write succeeds.
C9_TimeoutKeepsOrUpdatesSession ==
  [][(pc = "save_session" /\ timed_out /\ pc' = "poll") =>
       /\ session_id = IF prevObs # None THEN prevObs ELSE cmd.resume
       /\ cmd.resume # None => session_id # None
       /\ (session_id # None /\ sessOk') => sessionFile' = session_id
       /\ session_id' = session_id]_vars

\* C9 witness: a run that was given a session has timed out without reading
\* any session value and returns the session it was given.
C9_Witness ==
  /\ pc = "save_session" /\ timed_out /\ prevObs = None
  /\ cmd.resume # None /\ session_id = cmd.resume

\* C10 as stated: main is about to request updates, or a reader is about to
\* spawn an agent, only when no reader of an earlier turn is still running.
C10_TurnsNeverOverlap ==
  (pc = "poll" \/ rpc = "spawn") => detached = 0

\* What the chat got during the turn so far.
Sent(what) == \E i \in DOMAIN chat : chat[i] = what

\* C16: when the agent has exited with a non-zero code and the turn returns
\* without any text surfaced, one error message has been sent to the chat.
C16_NonZeroExitReported ==
  ( /\ pc = "save_session" /\ rpc = "finished" /\ ~timed_out
    /\ proc.st = "exited" /\ proc.rc # 0
    /\ ~Sent("text") )
  => Sent("error")

\* A line of the agent's output that is not an event to surface: unparseable
\* or blank, parseable but no object, or an object of a type other than
\* assistant.
Unrecognized(line) ==
  line.kind \in {"malformed", "nonobject"} \/ Lower(line.type) # "assistant"

\* C17: a malformed or unrecognized line never aborts the run: the reader that
\* reads one goes on reading, and the parse of the collected output at the end
\* of the turn does not end the poll loop.
C17_BadLineSkipped ==
  [][ /\ (rpc = "read" /\ proc.pipe # <<>> /\ Unrecognized(Head(proc.pipe)))
         => rpc' = "read"
      /\ (pc = "join") => pc' # "down" ]_vars

\* C18: a poll never ends the loop and a poll that brings no update changes
\* nothing: the offset, the session, the recipient and the files stay as they
\* are, no agent is invoked, and the bot polls again.
C18_PollFailureHarmless ==
  [][ pc = "poll" =>
        /\ pc' \in {"poll", "batch"}
        /\ UNCHANGED <<offset, session_id, fileVars, turnVars>> ]_vars

\* The first sends of the chunks, in the order made
FirstSends == SelectSeq(msg_calls, LAMBDA c : c.parse_mode = "Markdown")

RECURSIVE Concat(_)
Concat(cs) == IF cs = <<>> THEN <<>> ELSE Head(cs).text \o Concat(Tail(cs))

\* ceil(n / 4096)
CeilChunks(n) == (n + 4095) \div 4096

\* C11: send_message sends a text of length L as ceil(L/4096) chunks in
\* order, each non-empty and of at most 4096 units, whose concatenation is the
\* text; when no send is rejected that is ceil(L/4096) send calls (3 for
\* L = 9000), and none for the empty text.
C11_ChunksRebuildText ==
  LET L == Len(msg_text)
      sofar == Concat(FirstSends)
  IN /\ \A k \in DOMAIN FirstSends : Len(FirstSends[k].text) \in 1..4096
     /\ Len(sofar) <= L /\ sofar = SubSeq(msg_text, 1, Len(sofar))
     /\ Len(FirstSends) <= CeilChunks(L)
     /\ msg_pc = "returned" =>
          /\ Len(FirstSends) = CeilChunks(L)
          /\ sofar = msg_text
          /\ (\A k \in DOMAIN msg_calls : msg_calls[k].outcome = "ok")
               => Len(msg_calls) = CeilChunks(L)
          /\ (L = 9000 /\ Len(msg_calls) = Len(FirstSends)) => Len(msg_calls) = 3
     /\ L = 0 => msg_calls = <<>> /\ msg_pc = "returned"

C11_Witness ==
  /\ msg_pc = "returned" /\ Len(msg_text) = 9000
  /\ Len(msg_calls) = 3 /\ Len(msg_calls[3].text) = 9000 - 2 * 4096

\* C12: every chunk is first sent with parse_mode; a send without parse_mode
\* is made exactly when the first send of the same chunk was answered with
\* HTTP 400, once, and when it succeeds the next chunk follows; every other
\* error of a first send and every error of a resend leaves send_message
\* with no further send.
C12_ResendOnlyAfter400 ==
  LET n == Len(msg_calls)
      Failed(c) == c.outcome # "ok" /\ ~(c.parse_mode = "Markdown" /\ c.outcome = "http400")
  IN /\ \A k \in 1..n :
          LET c == msg_calls[k]
          IN /\ c.parse_mode = "omitted" =>
                  /\ k > 1
                  /\ msg_calls[k - 1].parse_mode = "Markdown"
                  /\ msg_calls[k - 1].outcome = "http400"
                  /\ msg_calls[k - 1].text = c.text
             /\ (c.parse_mode = "Markdown" /\ c.outcome = "http400") =>
                  IF k < n
                  THEN msg_calls[k + 1].parse_mode = "omitted" /\ msg_calls[k + 1].text = c.text
                  ELSE msg_pc = "plain"
             /\ Failed(c) => k = n /\ msg_pc = "raised"
             /\ c.outcome = "ok" =>
                  IF k < n
                  THEN /\ msg_calls[k + 1].parse_mode = "Markdown"
                       /\ Head(msg_calls[k + 1].text) = c.text[Len(c.text)] + 1
                  ELSE IF c.text[Len(c.text)] = Len(msg_text)
                       THEN msg_pc = "returned"
                       ELSE msg_pc = "first" /\ msg_i = c.text[Len(c.text)]
     /\ msg_pc = "raised" => n > 0 /\ Failed(msg_calls[n])
     /\ msg_pc = "plain" => n > 0 /\ msg_calls[n].outcome = "http400"

C12_Witness ==
  /\ msg_pc = "returned"
  /\ \E k \in DOMAIN msg_calls :
       /\ msg_calls[k].parse_mode = "omitted"
       /\ k < Len(msg_calls)

\* A line that is empty or holds only whitespace
Blank(line) == \A k \in DOMAIN line : line[k] \in WS

\* A line that, apart from surrounding whitespace, begins with attach-image:
Directive(line) == \E k \in DOMAIN line :
  line[k] = "@" /\ \A h \in 1..(k - 1) : line[h] \in WS

\* What follows attach-image: on a directive line, without surrounding whitespace
PathOf(line) == Strip(Tail(LStrip(line)))

PhotoSends == SelectSeq(fl_sends, LAMBDA m : m.what = "photo")
TextSends  == SelectSeq(fl_sends, LAMBDA m : m.what = "text")

\* C14 as stated: the text message of a flush consists of the lines of the
\* flushed text other than the attach-image lines, unchanged and in order.
C14_OtherLinesUnchanged ==
  \A k \in DOMAIN TextSends :
    Split(TextSends[k].of)
      = SelectSeq(Split(Strip(ev_text)), LAMBDA l : ~Directive(l))

\* C14: no attach-image line is displayed; the photos sent are the paths of
\* the attach-image lines whose file exists, one send each, in order, before
\* the text message; the non-blank other lines are displayed in order and
\* unchanged but for whitespace at the very start and end of the message, and
\* a message is sent exactly when there is such a line.
C14_DirectivesBecomePhotos ==
  LET lines  == Split(ev_text)
      found  == SelectSeq(lines, LAMBDA l : Directive(l) /\ PathOf(l) = <<"p">>)
      others == SelectSeq(lines, LAMBDA l : ~Directive(l) /\ ~Blank(l))
      n      == Len(others)
  IN /\ \A j, k \in DOMAIN fl_sends :
          (fl_sends[j].what = "photo" /\ fl_sends[k].what = "text") => j < k
     /\ Len(PhotoSends) <= Len(found)
     /\ \A k \in DOMAIN PhotoSends : PhotoSends[k].of = PathOf(found[k])
     /\ Len(TextSends) <= 1
     /\ \A k \in DOMAIN TextSends :
          LET shown == Split(TextSends[k].of)
              kept  == SelectSeq(shown, LAMBDA l : ~Blank(l))
          IN /\ Len(PhotoSends) = Len(found)
             /\ \A h \in DOMAIN shown : ~Directive(shown[h])
             /\ Len(kept) = n
             /\ \A h \in 1..n :
                  kept[h] = IF n = 1 THEN Strip(others[h])
                            ELSE IF h = 1 THEN LStrip(others[h])
                            ELSE IF h = n THEN RStrip(others[h])
                            ELSE others[h]
     /\ fl_pc \in {"done", "raised"} =>
          /\ Len(PhotoSends) = Len(found)
          /\ Len(TextSends) = IF n > 0 THEN 1 ELSE 0

C14_Witness ==
  /\ fl_pc = "done"
  /\ ev_text = <<"a", " ", "\n", "@", " ", "p">>
  /\ fl_sends = <<[what |-> "photo", of |-> <<"p">>], [what |-> "text", of |-> <<"a">>]>>

\* The lines collapse_blank_lines is to return for lines: those that are not
\* blank, and one empty line for the first line of each run of blank ones.
Collapsed(lines) ==
  LET first == {j \in DOMAIN lines :
                  ~Blank(lines[j]) \/ j = 1 \/ ~Blank(lines[j - 1])}
      At(k) == CHOOSE j \in first : Cardinality({h \in first : h <= j}) = k
  IN [k \in 1..Cardinality(first) |->
        IF Blank(lines[At(k)]) THEN <<>> ELSE lines[At(k)]]

\* C15: collapse_blank_lines puts one empty line for every maximal run of
\* blank lines and keeps the other lines unchanged and in order, on the text
\* of the event and on the text the flush gives it; applied twice it gives
\* what it gives applied once; three blank lines between two paragraphs are
\* displayed as one.
C15_BlankRunsCollapsed ==
  /\ \A str \in {ev_text, text_without_attach} :
       LET once == collapse_blank_lines(str)
       IN /\ str # <<>> => Split(once) = Collapsed(Split(str))
          /\ str = <<>> => once = <<>>
          /\ collapse_blank_lines(once) = once
  /\ \A k \in DOMAIN TextSends :
       LET shown == Split(TextSends[k].of)
       IN \A h \in DOMAIN shown :
            Blank(shown[h]) =>
              shown[h] = <<>> /\ 1 < h /\ h < Len(shown) /\ ~Blank(shown[h + 1])
  /\ (ev_text = <<"a", "\n", "\n", "\n", "\n", "p">> /\ fl_pc = "done")
       => fl_sends = <<[what |-> "text", of |-> <<"a", "\n", "\n", "p">>]>>

C15_Witness ==
  /\ ev_text = <<"a", "\n", "\n", "\n", "\n", "p">>
  /\ fl_pc = "done" /\ fl_sends # <<>>

\* The endings that make a name that of an image, in either case
ImageEndings ==
  {".png", ".jpg", ".jpeg", ".gif", ".webp", ".PNG", ".JPG", ".JPEG", ".GIF", ".WEBP"}

\* The places in dr_sends where file f was sent
SendsOf(f) == {k \in DOMAIN dr_sends : dr_sends[k].what # "text" /\ dr_sends[k].rank = f.rank}

ByHelper(f) == f.dir = "att" \/ f.ext \in ImageEndings

C26_SendErrorSparesPollLoop ==
  [][(pc \in {"wait", "tick", "notice"}) => pc' # "down" ]_vars

\* C29: once the timeout notice of a turn is in the chat, no agent text and
\* no error message of that turn follows it.
C29_NothingAfterNotice ==
  \A i, j \in DOMAIN chat :
    (i < j /\ chat[i] = "notice") => chat[j] \notin {"text", "error"}

\* The allowed user said something in the poll response: a text, or a
\* caption under a photo, that is not blank
SaidSomething(upds) ==
  \E e \in FromAllowed(upds) :
    Strip(e.u.text) # <<>> \/ (e.u.photo /\ Strip(e.u.caption) # <<>>)

C28_FailedWriteKeepsFile ==
  [][ /\ (pc = "save_offset" /\ pc' = "dispatch") =>
           offsetFile' \in {<<offset>>, offsetFile}
      /\ (pc = "save_session" /\ pc' = "poll") =>
           sessionFile' \in {session_id, sessionFile}
      /\ (pc = "dispatch" /\ pc' \in {"poll", "wait"}) =>
           chatIdFile' \in {batch.chat_id, chatIdFile} ]_vars

\* C28: a save step (the bot process not being killed meanwhile) goes on to
\* the same place and leaves the values in memory as they are whether or not
\* its write succeeds - after save_offset the loop body, after save_session
\* the next poll, after save_chat_id the agent run with the prompt of the
\* batch and the session in memory - and the file holds afterwards the value
\* written, the content it had before, or nothing.
C28_FailedWriteNotFatal ==
  [][ /\ (pc = "save_offset" /\ pc' \notin {"save_offset", "down"}) =>
           /\ pc' = "dispatch"
           /\ UNCHANGED <<offset, session_id, updates, batch>>
           /\ offsetFile' \in {<<offset>>, offsetFile, <<>>}
      /\ (pc = "save_session" /\ pc' \notin {"save_session", "down"}) =>
           /\ pc' = "poll"
           /\ UNCHANGED <<offset, session_id>>
           /\ sessionFile' \in {session_id, sessionFile, <<>>}
      /\ (pc = "dispatch" /\ pc' \notin {"dispatch", "down"}) =>
           /\ UNCHANGED <<offset, session_id>>
           /\ chatIdFile' \in {batch.chat_id, chatIdFile, <<>>}
           /\ IF batch.chat_id # None /\ Strip(BuildPrompt(batch)) # <<>>
              THEN /\ pc' = "wait"
                   /\ cmd' = [prompt |-> BuildPrompt(batch), resume |-> session_id]
              ELSE pc' = "poll" ]_vars

\* C28 witness: a turn is running on the offset in memory although the write
\* of that offset failed and the file does not hold it.
C28_Witness ==
  /\ pc = "wait" /\ ~offOk
  /\ offset = MaxUpdateId(updates) + 1 /\ offsetFile # <<offset>>

\* C22 as stated, read in the code's favour: between two runs, the previous
\* run having observed the session value S, the session in memory is S (or S
\* as load_session trims it after a restart) and, no session write having
\* failed since, the session file holds S; and a run that returns having
\* observed no session value returns the session it was given, which is then
\* neither cleared in memory nor in the file.
C22_SessionIsLastObserved ==
  /\ (pc = "poll" /\ prevObs # None) =>
       /\ session_id \in {prevObs, Strip(prevObs)}
       /\ sessOk => sessionFile = prevObs
  /\ (pc = "save_session" /\ prevObs = None) => session_id = cmd.resume

\* C25 as stated, read in the code's favour: the reader's error report is
\* followed by the completion flag alone; no turn gets more than one error
\* message; and a turn in which the reader reported a failure returns to main,
\* which goes on to save the session - the one the run was given or, if lines
\* read before the failure carried one, the last of those - and to poll.
C25_ReaderFailureCaught ==
  [][ /\ (rpc = "report" /\ rpc' \notin {"report", "idle"}) => rpc' = "setdone"
      /\ Cardinality({i \in DOMAIN chat' : chat'[i] = "error"}) <= 1
      /\ (pc = "join" /\ Sent("error") /\ pc' # "join") =>
           /\ process_done \/ timed_out
           /\ pc' = "save_session"
           /\ session_id' \in {cmd.resume, LastObserved(full_stdout_lines)} ]_vars

\* The typing signals on record in a log of the chat
Typings(log) == Cardinality({i \in DOMAIN log : log[i] = "typing"})

\* C23: the heartbeat stops with the turn. A pass of the waiting loop begins
\* only when the loop condition found the completion flag unset, so that with
\* the flag set the pass under way is the last; the heartbeat that finds the
\* flag set leaves the loop; outside a pass no typing signal is issued; and
\* no typing signal follows the timeout notice in the chat.
C23_HeartbeatStopsWithTurn ==
  [][ /\ (pc # "tick" /\ pc' = "tick") => (pc = "wait" /\ ~process_done)
      /\ (pc = "wait" /\ process_done /\ pc' # "wait") => pc' = "join"
      /\ (pc # "tick") => Typings(chat') <= Typings(chat)
      /\ \A i, j \in DOMAIN chat' :
           (i < j /\ chat'[i] = "notice") => chat'[j] # "typing" ]_vars

\* C23 witness: a turn that signalled typing has been timed out, its notice
\* sent and the waiting loop left.
C23_Witness ==
  /\ pc = "join" /\ timed_out
  /\ \E i, j \in DOMAIN chat : i < j /\ chat[i] = "typing" /\ chat[j] = "notice"

\* The chat of the first message of the allowed user in a poll response
FirstAcceptedChat(upds) ==
  LET first == CHOOSE e \in FromAllowed(upds) :
                 \A f \in FromAllowed(upds) : e.update_id <= f.update_id
  IN <<first.u.chat>>

\* C27 as stated: the persisted recipient, once learned in a life of the bot
\* process, stays what it is for the rest of that life.
C27_RecipientOfFirstMessage ==
  [][ chatIdFile # <<>> => chatIdFile' = chatIdFile ]_vars

\* C27: the recipient is learned anew from every poll response, as the chat of
\* the first accepted message in it, and is persisted when - and only when -
\* that response goes on to invoke the agent; throughout the turn the
\* recipient its sends are addressed to stays that chat, and is what the
\* recipient file holds.
C27_RecipientPerResponse ==
  [][ /\ (pc = "dispatch" /\ pc' = "wait") =>
           /\ batch.chat_id = FirstAcceptedChat(updates)
           /\ chatIdFile' = batch.chat_id
      /\ chatIdFile' # chatIdFile => (pc = "dispatch" /\ pc' = "wait")
      /\ (pc \in TurnPcs /\ pc' # "down") =>
           /\ UNCHANGED <<batch, updates>>
           /\ chatIdFile = batch.chat_id
           /\ batch.chat_id = FirstAcceptedChat(updates) ]_vars

\* C27 witness: a second turn is running, for a response whose first accepted
\* message came from the group chat, which the recipient file now holds.
C27_Witness ==
  /\ pc = "wait" /\ ran = {1, 2} /\ batch.ids = {2}
  /\ batch.chat_id = <<"chatGroup">> /\ chatIdFile = <<"chatGroup">>

\* The flush of the event has begun: the drains are made, the text is split
\* and sent.
Flushed == fl_pc = "photos" \/ (fl_pc \in {"done", "raised"} /\ Strip(ev_text) # <<>>)

\* The event is dealt with: skipped, or flushed to the end.
Dealt == fl_pc \in {"skipped", "done", "raised"}

\* The event carries, in one of the shapes the reader knows, text that is
\* not empty after trimming.
CarriesText(o) ==
  \/ o.parts # <<>> /\ Strip(Join(<<>>, o.parts)) # <<>>
  \/ \E t \in {o.content, o.text, o.delta, o.result, o.output} :
       t # NotStr /\ Strip(t) # <<>>

\* C21 as stated: an event is flushed if and only if its type is neither
\* thinking nor result and it carries text in a recognized shape.
C21_AnyOtherTypeSurfaced ==
  Dealt => (Flushed <=> (MsgType(obj) \notin {"thinking", "result"} /\ CarriesText(obj)))

\* The one place the reader takes the text from: the text parts of
\* message.content if there is one, else the first flat field that is set.
TextPlace(o) ==
  IF o.parts # <<>> THEN Join(<<>>, o.parts)
  ELSE IF o.content # <<>> THEN o.content
  ELSE IF o.text # <<>> THEN o.text
  ELSE IF o.delta # <<>> THEN o.delta
  ELSE IF o.result # <<>> THEN o.result
  ELSE o.output

\* C21: an event is flushed if and only if the first of its role, type and
\* messageType fields that is set is assistant in any case of letters and the
\* one place the reader takes the text from holds a string that is not empty
\* after trimming; thinking and result events are never flushed.
C21_OnlyAssistantSurfaced ==
  /\ Dealt => (Flushed <=> /\ \/ obj.role = "Assistant"
                              \/ obj.role = "" /\ obj.type = "assistant"
                              \/ obj.role = "" /\ obj.type = "" /\ obj.messageType = "assistant"
                           /\ TextPlace(obj) # NotStr
                           /\ Strip(TextPlace(obj)) # <<>>)
  /\ (MsgType(obj) \in {"thinking", "result"}) => fl_pc \in {"parsed", "skipped"}

\* C21 witness: an event whose type is Assistant has been flushed, its text
\* sent to the chat.
C21_Witness ==
  /\ MsgType(obj) = "assistant" /\ obj.role = "Assistant"
  /\ fl_pc = "done" /\ Flushed /\ fl_sends # <<>>

\* C30 as stated: under fair scheduling and with no timeout, a turn whose
\* reader has been started gets its completion flag set.
C30_EveryTurnTerminates == (rpc = "spawn") ~> process_done

\* The output lines read so far whose text the reader surfaces
Surfaced == {k \in DOMAIN full_stdout_lines : Classify(full_stdout_lines[k]) = "flush"}

\* The place in the chat of the text of output line k (0: not there)
PlaceOf(k) ==
  IF \E i \in DOMAIN chat : chat[i] = TextOfLine(k)
  THEN CHOOSE i \in DOMAIN chat : chat[i] = TextOfLine(k)
  ELSE 0

\* C31: flushes are synchronous and keep the order. At every moment of a run,
\* also after the agent has exited and the run has returned, every message in
\* the chat but the error report is the text of a surfaced line that has been
\* read; no line has its text there twice; the texts stand in the order of
\* their lines; and the text of every surfaced line but the last line read
\* is there, that of the last line read as soon as the reader is back at
\* reading.
C31_FlushesInOrder ==
  /\ \A i \in DOMAIN chat :
       chat[i] # "error" => \E k \in Surfaced : chat[i] = TextOfLine(k)
  /\ \A i, j \in DOMAIN chat :
       (i # j /\ chat[i] # "error") => chat[i] # chat[j]
  /\ \A k, l \in Surfaced :
       (k < l /\ PlaceOf(l) # 0) => (PlaceOf(k) # 0 /\ PlaceOf(k) < PlaceOf(l))
  /\ \A k \in Surfaced :
       (k < Len(full_stdout_lines) \/ rpc = "read") => PlaceOf(k) # 0

\* C31 witness: the run has returned after two assistant events, the text of
\* the first in the chat before the text of the second.
C31_Witness ==
  /\ pc = "save_session" /\ proc.st = "exited"
  /\ chat = <<TextOfLine(1), TextOfLine(2)>>

\* The entries of a list
EntriesOf(list) == {list[k] : k \in DOMAIN list}

\* A reminder that a run whose now is now has to keep: no object, without at,
\* with an at that is no date, or not due
Kept(e, now) ==
  ~e.dict \/ e.at = "" \/ e.at = "x" \/ (e.at = "1" /\ now < 1) \/ (e.at = "2" /\ now < 2)

\* C32 as stated: a run processes a reminder only when the file no longer
\* holds it; no reminder is processed by two timer runs; and the write of a
\* run leaves in the file, of the reminders the run loaded, exactly those
\* that are not due at its now, have no at or have an at that is no date.
C32_NoReminderTwice ==
  [][ /\ \A r \in DOMAIN run :
           (run[r].pc = "process" /\ run[r].due # <<>> /\ run'[r].due # run[r].due) =>
              Head(run[r].due) \notin EntriesOf(reminders_file)
      /\ \A i, j \in DOMAIN handled' :
           (handled'[i].id = handled'[j].id) => handled'[i].by = handled'[j].by
      /\ \A r \in DOMAIN run :
           (run[r].pc = "dump" /\ run'[r].pc = "process") =>
              EntriesOf(reminders_file') =
                {e \in EntriesOf(run[r].due) \cup EntriesOf(run[r].remaining) :
                   Kept(e, run[r].now)} ]_vars
====
